---------------------------- MODULE Spec2Model ----------------------------
(***************************************************************************)
(* Model of three programs of the skills repository:                       *)
(*                                                                         *)
(*  - the voice agent of voice-agent-starter.py: VoiceAgent and its three  *)
(*    clients (DeepgramSTT, GroqLLM, CartesiaTTS) running on one asyncio   *)
(*    event loop;                                                          *)
(*  - the serverless worker of runpod-worker.py: handler, its validation,  *)
(*    its two inference paths and its cleanup step;                        *)
(*  - the training data generator of generate_training_data.py.            *)
(*                                                                         *)
(* Text is a sequence of one-character strings, so that str.strip(),       *)
(* concatenation and the punctuation test are computed, not assumed.       *)
(***************************************************************************)
EXTENDS Integers, Sequences, FiniteSets, TLC

VARIABLES
    profile,            \* which input sets the run draws from
    tier,               \* VoiceAgent.tier
    language,           \* VoiceAgent.language
    on_audio_cb,        \* VoiceAgent._on_audio is set
    state,              \* VoiceAgent.state (VoiceAgentState)
    connection,         \* DeepgramSTT.connection is not None
    tasks,              \* the _process_turn coroutines created by create_task
    startPc,            \* VoiceAgent.start(): "idle" / "awaiting"
    stopPc,             \* VoiceAgent.stop():  "idle" / "awaiting"
    audio_forwarded     \* the last send_audio handed its chunk to the connection

voiceVars == <<profile, tier, language, on_audio_cb, state, connection, tasks,
               startPc, stopPc, audio_forwarded>>

VARIABLES
    job_input,          \* job["input"] of the invocation of handler
    wpc,                \* where the invocation of handler is
    result,             \* what handler returned
    path,               \* the exit path the invocation took
    raised,             \* the exception raised inside handler's try block
    reached,            \* the steps of handler the invocation reached
    cleanups,           \* runs of the cleanup step in this invocation
    generation,         \* model.generate for this job
    streamPc,           \* the generator run_inference_stream returned
    metrics,            \* the WorkerMetrics instance
    nJobs               \* invocations so far

workerVars == <<job_input, wpc, result, path, raised, reached, cleanups,
                generation, streamPc, metrics, nJobs>>

VARIABLES
    command,            \* the command generate_training_data.py was run with
    seeds,              \* the seed examples generate_all_data loaded
    dpc,                \* where the run of the generator is
    seed_index,         \* the seeds whose variations have been asked for
    all_examples,       \* all_examples of generate_all_data
    output_file,        \* the lines of CONFIG["output_file"], once written
    report              \* what validate_data counted

dataVars == <<command, seeds, dpc, seed_index, all_examples, output_file,
              report>>

VARIABLES
    factory,            \* the call of create_voice_agent and its outcome
    preset              \* CartesiaTTS.preset of the agent

factoryVars == <<factory, preset>>

VARIABLES
    llm_options,        \* the arguments of the last chat.completions.create
    live_options        \* the LiveOptions the transcription stream started with

clientVars == <<llm_options, live_options>>

VARIABLES
    demo                \* the input loop of demo_mode

demoVars == <<demo>>

VARIABLES
    on_transcript_cb,   \* VoiceAgent._on_transcript is set
    transcript_seen     \* the last arguments the _on_transcript callback got

callbackVars == <<on_transcript_cb, transcript_seen>>

\* the variables of the other programs, and the variables only a few steps
\* of the voice agent change
extVars == <<dataVars, factoryVars, clientVars, demoVars, callbackVars>>

vars == <<voiceVars, workerVars, extVars>>

---------------------------------------------------------------------------
(* Bounds of the model *)

\* turns (final, non-blank transcripts) submitted in one run
MaxTasks == 2
\* turns submitted in one run of the long profile: the history outgrows the window
MaxTasksLong == 6
\* audio chunks one synthesis request can yield
MaxChunks == 2
\* invocations of the worker handler in one run
MaxJobs == 2
\* seed examples a seed file holds
MaxSeeds == 2
\* variations the LLM returns for one seed (CONFIG["variations_per_seed"])
MaxVariations == 1
\* template examples of a full run (CONFIG["template_examples"])
TemplateExamples == 1
\* template examples of the template-only command
TemplateOnlyExamples == 2

---------------------------------------------------------------------------
(* Text *)

None == "None"

IsSpace(c) == c \in {" ", "\n", "\t"}

RECURSIVE LStrip(_)
LStrip(s) == IF s # <<>> /\ IsSpace(Head(s)) THEN LStrip(Tail(s)) ELSE s

RECURSIVE RStrip(_)
RStrip(s) == IF s # <<>> /\ IsSpace(s[Len(s)])
             THEN RStrip(SubSeq(s, 1, Len(s) - 1)) ELSE s

\* str.strip()
Strip(s) == RStrip(LStrip(s))

\* the slice s[-n:]
LastN(s, n) == SubSeq(s, IF Len(s) > n THEN Len(s) - n + 1 ELSE 1, Len(s))

---------------------------------------------------------------------------
(* Configuration tables *)

Tiers == {"free", "starter", "pro", "enterprise"}

Languages == {"en", "es"}

TIER_CONFIGS ==
    [t \in Tiers |->
        CASE t = "free" ->
               [name |-> "Free", target_latency_ms |-> 3000,
                llm_model |-> "llama-3.1-8b-instant", llm_max_tokens |-> 256,
                stt_model |-> "nova-2", tts_model |-> "sonic-english",
                enable_interrupts |-> FALSE, endpointing_ms |-> 500]
          [] t = "starter" ->
               [name |-> "Starter", target_latency_ms |-> 2500,
                llm_model |-> "llama-3.1-8b-instant", llm_max_tokens |-> 512,
                stt_model |-> "nova-2", tts_model |-> "sonic-english",
                enable_interrupts |-> TRUE, endpointing_ms |-> 400]
          [] t = "pro" ->
               [name |-> "Pro", target_latency_ms |-> 600,
                llm_model |-> "llama-3.1-70b-versatile", llm_max_tokens |-> 1024,
                stt_model |-> "nova-2", tts_model |-> "sonic-multilingual",
                enable_interrupts |-> TRUE, endpointing_ms |-> 300]
          [] t = "enterprise" ->
               [name |-> "Enterprise", target_latency_ms |-> 400,
                llm_model |-> "llama-3.1-70b-versatile", llm_max_tokens |-> 2048,
                stt_model |-> "nova-2", tts_model |-> "sonic-multilingual",
                enable_interrupts |-> TRUE, endpointing_ms |-> 250]]

\* VoiceAgent.tier_config
tier_config == TIER_CONFIGS[tier]

\* a component that ignores the settings it is given
EnterpriseConfig(given) == TIER_CONFIGS["enterprise"]

\* the config of a component: tier_config or TIER_CONFIGS[Tier.ENTERPRISE];
\* the argument is <<>> for None and <<c>> for the settings c
ComponentConfig(given) ==
    IF given = <<>> THEN TIER_CONFIGS["enterprise"] ELSE given[1]

\* the config of the three components of a VoiceAgent
stt_config == ComponentConfig(<<tier_config>>)

llm_config == ComponentConfig(<<tier_config>>)

tts_config == ComponentConfig(<<tier_config>>)

\* DeepgramSTT._get_language_code
LanguageCode == IF language = "es" THEN "es" ELSE "en-US"

\* the LiveOptions of start_stream
LiveOptions ==
    [model |-> stt_config.stt_model, language |-> LanguageCode,
     endpointing |-> stt_config.endpointing_ms]

\* no transcription stream was started
NoLiveOptions == [model |-> "none", language |-> "none", endpointing |-> 0]

\* the arguments of chat.completions.create besides the messages
ChatOptions ==
    [model |-> llm_config.llm_model, max_tokens |-> llm_config.llm_max_tokens,
     stream |-> TRUE]

\* no completion was requested
NoChatOptions == [model |-> "none", max_tokens |-> 0, stream |-> FALSE]

\* the context window of generate_stream: conversation_history[-10:]
HistoryWindow == 10

---------------------------------------------------------------------------
(* Inputs *)

\* the number of audio chunks a synthesis request can yield
ChunkCounts == IF profile \in {"turns", "demo"} THEN 1..MaxChunks ELSE {1}

\* transcripts the transcriber (or the demo loop) can deliver
Transcripts ==
    CASE profile = "long" -> {<<"a">>}
      [] profile = "transcripts" ->
           {<<>>, <<" ">>, <<"h", "i">>, <<" ", "a", " ">>}
      [] OTHER -> {<<"h", "i">>}

\* the is_final flags of the transcripts delivered
Finals == IF profile \in {"audio", "transcripts"} THEN BOOLEAN ELSE {TRUE}

TaskLimit == IF profile = "long" THEN MaxTasksLong ELSE MaxTasks

\* the delta.content values of the chunks of one completion stream; an empty
\* delta is a chunk without content
Streams ==
    CASE profile \in {"long", "transcripts"} -> { << <<"o", "k", ".">> >> }
      [] profile = "audio" -> { << <<"a", ".">>, <<" ", "b">>, <<"!">> >> }
      [] OTHER -> { << >>,
           << <<"a">>, <<".">>, <<" ", "b">> >>,
           << <<"a", "!">>, << >>, <<" ">> >>,
           << <<" ">>, <<"c", "?", "d">>, <<"e", ".">> >>,
           << <<"a">> >> }


---------------------------------------------------------------------------
(* The _process_turn coroutine *)

\* A coroutine created by asyncio.create_task(self._process_turn(text)).
\* pc: "created"     scheduled, not started
\*     "request"     past the guard, user turn appended, about to call the LLM
\*     "stream"      iterating the completion stream (runs without suspending)
\*     "speak"       suspended in _speak_text for a sentence of the response
\*     "speak_rest"  suspended in _speak_text for the text after the last sentence
\*     "speak_error" suspended in _speak_text for the error message
\*     "done"        returned or raised
NewTask(text) ==
    [pc |-> "created", outcome |-> "none", user_text |-> text,
     full_response |-> <<>>, sentence_buffer |-> <<>>,
     messages |-> <<>>, hist_len |-> 0, chunks |-> <<>>, pos |-> 0,
     tts_text |-> <<>>, tts_total |-> 0, tts_sent |-> 0,
     spoken |-> <<>>, interrupted |-> FALSE]

\* a finished coroutine whose frame has been released
Released == [NewTask(<<>>) EXCEPT !.pc = "done", !.outcome = "released"]

Ids == DOMAIN tasks

\* the coroutine is past the is_processing guard and has not finished
Active(f) == f.pc \in {"request", "stream", "speak", "speak_rest", "speak_error"}

\* the coroutine is suspended at an await inside _speak_text
Speaking(f) == f.pc \in {"speak", "speak_rest", "speak_error"}

\* The event loop is running synchronous code: generate_stream iterates a
\* blocking stream, so nothing else runs between two tokens of a turn, and
\* demo_mode reads its input with the blocking input().
LoopBusy ==
    \/ \E i \in Ids : tasks[i].pc \in {"request", "stream"}
    \/ demo.pc = "input"

LoopFree == ~LoopBusy

\* ConversationTurn(role, content)
ConversationTurn(role, content) == [role |-> role, content |-> content]

\* GroqLLM._get_system_prompt
SystemPrompt ==
    <<"system_prompt",
      IF language = "es"
      THEN "Responde siempre en espanol. Usa un tono amable y profesional."
      ELSE "Always respond in English. Use a friendly and professional tone.">>

\* a generate_stream that copies the oldest turns of the history
ContextTurnsOldest(history) ==
    SubSeq(history, 1,
           IF Len(history) < HistoryWindow THEN Len(history) ELSE HistoryWindow)

\* the history turns generate_stream copies into the request
ContextTurns(history) == LastN(history, HistoryWindow)

\* the messages generate_stream sends
BuildMessages(user_message, history) ==
    <<[role |-> "system", content |-> SystemPrompt]>>
    \o [k \in 1..Len(ContextTurns(history)) |->
          [role |-> ContextTurns(history)[k].role,
           content |-> ContextTurns(history)[k].content]]
    \o <<[role |-> "user", content |-> user_message]>>

\* a sentence test that also takes a blank for a sentence end
SentenceEndOrBlank(token) ==
    \E k \in 1..Len(token) : token[k] \in {".", "!", "?", " "}

\* any(punct in token for punct in ".!?")
SentenceEnd(token) == \E k \in 1..Len(token) : token[k] \in {".", "!", "?"}

\* an error message that ignores the language of the agent
ErrorMessageEnglish == <<"Sorry, there was a problem. Please try again.">>

\* the error message of _process_turn
ErrorMessage ==
    IF language = "es"
    THEN <<"Lo siento, hubo un problema. Por favor intenta de nuevo.">>
    ELSE <<"Sorry, there was a problem. Please try again.">>

\* the frame once _speak_text(text) has started a synthesis of n chunks
Synthesis(f, text, n, kind) ==
    [f EXCEPT !.tts_text = text, !.tts_total = n, !.tts_sent = 0,
              !.spoken = Append(@, [text |-> text, kind |-> kind,
                                    pos |-> f.pos, total |-> n,
                                    delivered |-> 0,
                                    model_id |-> tts_config.tts_model,
                                    voice_id |-> preset.voice_id,
                                    language |-> preset.language])]

\* a _process_turn without its finally block
FinallyMissing(st) == st

\* the finally block of _process_turn
Finally(st) == [st EXCEPT !.is_processing = FALSE, !.is_listening = TRUE]


---------------------------------------------------------------------------
(* VoiceAgent: transcripts and turns *)

\* a handler that starts a turn for every final transcript
StartsTurnOnAnyFinal(text, is_final) == is_final

\* "if is_final and text.strip()": the transcript starts a turn
StartsTurn(text, is_final) == is_final /\ Strip(text) # <<>>

\* "if self._on_transcript: self._on_transcript(text, is_final)"
Seen(text, is_final) ==
    IF on_transcript_cb
    THEN <<[text |-> text, is_final |-> is_final]>>
    ELSE transcript_seen

\* VoiceAgent._handle_transcript(text, is_final)
handle_transcript(text, is_final) ==
    /\ LoopFree
    /\ StartsTurn(text, is_final) => Len(tasks) < TaskLimit
    /\ state' = [state EXCEPT !.current_transcript = text]
    /\ transcript_seen' = Seen(text, is_final)
    /\ tasks' = IF StartsTurn(text, is_final)
                THEN Append(tasks, NewTask(text))
                ELSE tasks
    /\ UNCHANGED <<profile, tier, language, on_audio_cb, connection, startPc,
                   stopPc, audio_forwarded>>
    /\ UNCHANGED <<workerVars, dataVars, factoryVars, clientVars, demoVars,
                   on_transcript_cb>>

\* DeepgramSTT._handle_transcript(connection, result): an event of the
\* connection; a transcript that is not empty goes to the callback
\* start_stream was given, VoiceAgent._handle_transcript
stt_handle_transcript(text, is_final) ==
    /\ connection
    /\ IF text # <<>>
       THEN handle_transcript(text, is_final)
       ELSE LoopFree /\ UNCHANGED vars

\* the coroutine the event loop starts next: tasks start in creation order
NextCreated(i) ==
    /\ i \in Ids
    /\ tasks[i].pc = "created"
    /\ \A j \in Ids : j < i => tasks[j].pc # "created"

\* a _process_turn without its guard
TurnGuardMissing == FALSE

\* the guard of _process_turn: the turn is skipped while another is processed
TurnGuard == state.is_processing

\* _process_turn, first step, guard taken: "Already processing, skipping turn"
process_turn_skip(i) ==
    /\ LoopFree
    /\ NextCreated(i)
    /\ TurnGuard
    /\ tasks' = [tasks EXCEPT ![i] = [@ EXCEPT !.pc = "done",
                                               !.outcome = "skipped"]]
    /\ UNCHANGED <<profile, tier, language, on_audio_cb, state, connection,
                   startPc, stopPc, audio_forwarded>>
    /\ UNCHANGED <<workerVars, extVars>>

\* _process_turn, first step, guard passed: the flags are set and the user
\* turn is appended; frames of finished coroutines are released
process_turn_begin(i) ==
    /\ LoopFree
    /\ NextCreated(i)
    /\ ~TurnGuard
    /\ state' = [state EXCEPT
                   !.is_processing = TRUE,
                   !.is_listening = FALSE,
                   !.conversation_history =
                       Append(@, ConversationTurn("user", tasks[i].user_text))]
    /\ tasks' = [j \in Ids |->
                   IF j = i THEN [tasks[i] EXCEPT !.pc = "request"]
                   ELSE IF tasks[j].pc = "done" THEN Released
                   ELSE tasks[j]]
    /\ UNCHANGED <<profile, tier, language, on_audio_cb, connection, startPc,
                   stopPc, audio_forwarded>>
    /\ UNCHANGED <<workerVars, extVars>>

\* the except block of _process_turn: the error message is spoken
\* (st: the agent state when the exception arrives, f: the frame)
ExceptState(st) == [st EXCEPT !.is_speaking = TRUE]

ExceptFrame(f, n) ==
    Synthesis([f EXCEPT !.pc = "speak_error"], ErrorMessage, n, "error")

\* GroqLLM.generate_stream up to the first chunk: the messages are built from
\* the history the agent holds now and the completion stream is opened
llm_request(i) ==
    /\ i \in Ids
    /\ tasks[i].pc = "request"
    /\ \E chunks \in Streams :
         tasks' = [tasks EXCEPT ![i] =
                     [@ EXCEPT !.pc = "stream",
                               !.messages = BuildMessages(
                                   tasks[i].user_text,
                                   state.conversation_history),
                               !.hist_len = Len(state.conversation_history),
                               !.chunks = chunks,
                               !.pos = 0]]
    /\ llm_options' = ChatOptions
    /\ UNCHANGED <<profile, tier, language, on_audio_cb, state, connection,
                   startPc, stopPc, audio_forwarded>>
    /\ UNCHANGED <<workerVars, dataVars, factoryVars, demoVars,
                   callbackVars, live_options>>

\* a token loop that keeps only the last token in the sentence buffer
TokenStepOverwriting(f, token, n) ==
    LET g == [f EXCEPT !.pos = @ + 1,
                       !.full_response = @ \o token,
                       !.sentence_buffer = token]
    IN IF Strip(g.sentence_buffer) # <<>>
          /\ \E c \in 1..Len(token) : token[c] \in {".", "!", "?"}
       THEN Synthesis([g EXCEPT !.pc = "speak"],
                      Strip(g.sentence_buffer), n, "sentence")
       ELSE g

\* the body of the token loop once the token has been added to both buffers:
\* a sentence end starts the synthesis of the stripped buffer
TokenStep(f, token, n) ==
    LET g == [f EXCEPT !.pos = @ + 1,
                       !.full_response = @ \o token,
                       !.sentence_buffer = @ \o token]
    IN IF SentenceEnd(token) /\ Strip(g.sentence_buffer) # <<>>
       THEN Synthesis([g EXCEPT !.pc = "speak"],
                      Strip(g.sentence_buffer), n, "sentence")
       ELSE IF SentenceEnd(token)
       THEN [g EXCEPT !.sentence_buffer = <<>>]
       ELSE g

\* a turn that takes chunks from the stream while a sentence is synthesized
CanConsumeWhileSpeaking(f) == f.pc \in {"stream", "speak"}

\* the turn may take its next chunk from the completion stream
CanConsume(f) == f.pc = "stream"

\* one chunk of the completion stream: generate_stream yields its content when
\* it is not empty and the loop body of _process_turn runs on it
llm_chunk(i) ==
    /\ i \in Ids
    /\ CanConsume(tasks[i])
    /\ tasks[i].pos < Len(tasks[i].chunks)
    /\ LET token == tasks[i].chunks[tasks[i].pos + 1]
       IN IF token = <<>>
          THEN /\ tasks' = [tasks EXCEPT ![i] = [@ EXCEPT !.pos = @ + 1]]
               /\ state' = state
          ELSE \E n \in ChunkCounts :
                 /\ tasks' = [tasks EXCEPT ![i] = TokenStep(@, token, n)]
                 /\ state' = IF tasks'[i].pc = "speak"
                             THEN [state EXCEPT !.is_speaking = TRUE]
                             ELSE state
    /\ UNCHANGED <<profile, tier, language, on_audio_cb, connection, startPc,
                   stopPc, audio_forwarded>>
    /\ UNCHANGED <<workerVars, extVars>>

\* an end of the try block that appends the assistant turn and does not
\* count the turn
CompleteStateUncounted(st, f) ==
    [st EXCEPT
       !.is_processing = FALSE,
       !.is_listening = TRUE,
       !.conversation_history =
           Append(@, [role |-> "assistant", content |-> f.full_response])]

\* the end of _process_turn's try block: the assistant turn is appended, the
\* turn is counted, and the finally block runs
CompleteState(st, f) ==
    Finally([st EXCEPT
               !.conversation_history =
                   Append(@, ConversationTurn("assistant", f.full_response)),
               !.turn_count = @ + 1])

\* the completion stream ends: the rest of the buffer is spoken if it is not
\* blank, else the turn completes
llm_end(i) ==
    /\ i \in Ids
    /\ tasks[i].pc = "stream"
    /\ tasks[i].pos = Len(tasks[i].chunks)
    /\ IF Strip(tasks[i].sentence_buffer) # <<>>
       THEN \E n \in ChunkCounts :
              /\ tasks' = [tasks EXCEPT ![i] =
                             Synthesis([@ EXCEPT !.pc = "speak_rest"],
                                       Strip(@.sentence_buffer), n, "rest")]
              /\ state' = [state EXCEPT !.is_speaking = TRUE]
       ELSE /\ tasks' = [tasks EXCEPT ![i] = [@ EXCEPT !.pc = "done",
                                                       !.outcome = "ok"]]
            /\ state' = CompleteState(state, tasks[i])
    /\ UNCHANGED <<profile, tier, language, on_audio_cb, connection, startPc,
                   stopPc, audio_forwarded>>
    /\ UNCHANGED <<workerVars, extVars>>

\* the completion call or its stream raises: the except block speaks the
\* error message
llm_raise(i) ==
    /\ i \in Ids
    /\ tasks[i].pc \in {"request", "stream"}
    /\ \E n \in ChunkCounts :
         tasks' = [tasks EXCEPT ![i] = ExceptFrame(@, n)]
    /\ state' = ExceptState(state)
    /\ UNCHANGED <<profile, tier, language, on_audio_cb, connection, startPc,
                   stopPc, audio_forwarded>>
    /\ UNCHANGED <<workerVars, extVars>>


---------------------------------------------------------------------------
(* VoiceAgent._speak_text and CartesiaTTS.synthesize_stream *)

\* the last entry of the frame's synthesis log counts one more delivered chunk
Delivered(f) ==
    [f EXCEPT !.spoken = [@ EXCEPT ![Len(@)] =
                             [@ EXCEPT !.delivered = @ + 1]]]

\* synthesize_stream yields one audio chunk; _speak_text hands it to the
\* _on_audio callback when one is registered
tts_chunk(i) ==
    /\ LoopFree
    /\ i \in Ids
    /\ Speaking(tasks[i])
    /\ tasks[i].tts_sent < tasks[i].tts_total
    /\ tasks' = [tasks EXCEPT ![i] =
                   IF on_audio_cb
                   THEN Delivered([@ EXCEPT !.tts_sent = @ + 1])
                   ELSE [@ EXCEPT !.tts_sent = @ + 1]]
    /\ UNCHANGED <<profile, tier, language, on_audio_cb, state, connection,
                   startPc, stopPc, audio_forwarded>>
    /\ UNCHANGED <<workerVars, extVars>>

\* synthesize_stream is exhausted: the finally block of _speak_text clears
\* is_speaking and _process_turn goes on from the await it was suspended at
tts_end(i) ==
    /\ LoopFree
    /\ i \in Ids
    /\ Speaking(tasks[i])
    /\ tasks[i].tts_sent = tasks[i].tts_total
    /\ LET st == [state EXCEPT !.is_speaking = FALSE]
       IN CASE tasks[i].pc = "speak" ->
                 /\ tasks' = [tasks EXCEPT ![i] =
                                [@ EXCEPT !.pc = "stream",
                                          !.sentence_buffer = <<>>]]
                 /\ state' = st
            [] tasks[i].pc = "speak_rest" ->
                 /\ tasks' = [tasks EXCEPT ![i] =
                                [@ EXCEPT !.pc = "done", !.outcome = "ok"]]
                 /\ state' = CompleteState(st, tasks[i])
            [] tasks[i].pc = "speak_error" ->
                 /\ tasks' = [tasks EXCEPT ![i] =
                                [@ EXCEPT !.pc = "done", !.outcome = "error"]]
                 /\ state' = Finally(st)
    /\ UNCHANGED <<profile, tier, language, on_audio_cb, connection, startPc,
                   stopPc, audio_forwarded>>
    /\ UNCHANGED <<workerVars, extVars>>

\* the synthesis raises: the finally block of _speak_text clears is_speaking;
\* inside the try block of _process_turn the except block then speaks the
\* error message, inside the except block the exception leaves the coroutine
\* through the finally block
tts_raise(i) ==
    /\ LoopFree
    /\ i \in Ids
    /\ Speaking(tasks[i])
    /\ LET st == [state EXCEPT !.is_speaking = FALSE]
       IN IF tasks[i].pc = "speak_error"
          THEN /\ tasks' = [tasks EXCEPT ![i] =
                              [@ EXCEPT !.pc = "done", !.outcome = "raised"]]
               /\ state' = Finally(st)
          ELSE /\ \E n \in ChunkCounts :
                    tasks' = [tasks EXCEPT ![i] = ExceptFrame(@, n)]
               /\ state' = ExceptState(st)
    /\ UNCHANGED <<profile, tier, language, on_audio_cb, connection, startPc,
                   stopPc, audio_forwarded>>
    /\ UNCHANGED <<workerVars, extVars>>

---------------------------------------------------------------------------
(* VoiceAgent: interrupt, audio in, start and stop *)

\* an interrupt() that does not look at the tier
InterruptStateAnyTier(st) ==
    IF st.is_speaking THEN [st EXCEPT !.is_speaking = FALSE] ELSE st

\* the agent state after interrupt()
InterruptState(st) ==
    IF tier_config.enable_interrupts /\ st.is_speaking
    THEN [st EXCEPT !.is_speaking = FALSE]
    ELSE st

\* an interrupt() that cancels the synthesis in flight
InterruptTasksCancelling(ts) ==
    [j \in DOMAIN ts |->
       IF Speaking(ts[j]) /\ tier_config.enable_interrupts /\ state.is_speaking
       THEN [ts[j] EXCEPT !.interrupted = TRUE, !.tts_total = ts[j].tts_sent]
       ELSE ts[j]]

\* the coroutines after interrupt(): nothing is cancelled; a turn that is
\* speaking when the flag is cleared is marked as interrupted
InterruptTasks(ts) ==
    [j \in DOMAIN ts |->
       IF Speaking(ts[j]) /\ InterruptState(state) # state
       THEN [ts[j] EXCEPT !.interrupted = TRUE]
       ELSE ts[j]]

\* VoiceAgent.interrupt()
interrupt ==
    /\ LoopFree
    /\ state' = InterruptState(state)
    /\ tasks' = InterruptTasks(tasks)
    /\ UNCHANGED <<profile, tier, language, on_audio_cb, connection, startPc,
                   stopPc, audio_forwarded>>
    /\ UNCHANGED <<workerVars, extVars>>

\* a send_audio that forwards while the agent speaks
ForwardsWhileSpeaking(st) == st.is_listening /\ connection

\* VoiceAgent.send_audio and DeepgramSTT.send_audio: the chunk reaches
\* connection.send
Forwards(st) == st.is_listening /\ ~st.is_speaking /\ connection

\* VoiceAgent.send_audio(audio_chunk)
send_audio ==
    /\ LoopFree
    /\ audio_forwarded' = Forwards(state)
    /\ UNCHANGED <<profile, tier, language, on_audio_cb, state, connection,
                   tasks, startPc, stopPc>>
    /\ UNCHANGED <<workerVars, extVars>>

\* VoiceAgent.start() up to the await of connection.start: start_stream
\* creates the connection
start_call ==
    /\ LoopFree
    /\ startPc = "idle"
    /\ connection' = TRUE
    /\ live_options' = LiveOptions
    /\ startPc' = "awaiting"
    /\ UNCHANGED <<profile, tier, language, on_audio_cb, state, tasks,
                   stopPc, audio_forwarded>>
    /\ UNCHANGED <<workerVars, dataVars, factoryVars, demoVars,
                   callbackVars, llm_options>>

\* VoiceAgent.start() after the await
start_return ==
    /\ LoopFree
    /\ startPc = "awaiting"
    /\ state' = [state EXCEPT !.is_listening = TRUE]
    /\ startPc' = "idle"
    /\ UNCHANGED <<profile, tier, language, on_audio_cb, connection, tasks,
                   stopPc, audio_forwarded>>
    /\ UNCHANGED <<workerVars, extVars>>

\* VoiceAgent.stop() up to the await of connection.finish; without a
\* connection stop_stream does not suspend and stop() runs to its end
stop_call ==
    /\ LoopFree
    /\ stopPc = "idle"
    /\ IF connection
       THEN /\ stopPc' = "awaiting"
            /\ state' = state
       ELSE /\ stopPc' = "idle"
            /\ state' = [state EXCEPT !.is_listening = FALSE]
    /\ UNCHANGED <<profile, tier, language, on_audio_cb, connection, tasks,
                   startPc, audio_forwarded>>
    /\ UNCHANGED <<workerVars, extVars>>

\* VoiceAgent.stop() after the await: the connection is dropped and
\* is_listening is cleared
stop_return ==
    /\ LoopFree
    /\ stopPc = "awaiting"
    /\ connection' = FALSE
    /\ state' = [state EXCEPT !.is_listening = FALSE]
    /\ stopPc' = "idle"
    /\ UNCHANGED <<profile, tier, language, on_audio_cb, tasks, startPc,
                   audio_forwarded>>
    /\ UNCHANGED <<workerVars, extVars>>

---------------------------------------------------------------------------
(* The voice agent as a state machine *)

\* VoiceAgentState()
VoiceAgentState ==
    [is_listening |-> FALSE, is_speaking |-> FALSE, is_processing |-> FALSE,
     current_transcript |-> <<>>, conversation_history |-> <<>>,
     turn_count |-> 0]

\* the construction parameters a run draws from
TierChoices ==
    CASE profile = "turns" -> Tiers
      [] profile = "audio" -> Tiers
      [] OTHER -> {"enterprise"}

LanguageChoices == IF profile = "audio" THEN Languages ELSE {"es"}

AudioCallbackChoices == IF profile = "audio" THEN BOOLEAN ELSE {TRUE}

\* whether on_transcript() was called before the session
TranscriptCallbackChoices ==
    CASE profile = "transcripts" -> BOOLEAN
      [] profile = "demo" -> {TRUE}
      [] OTHER -> {FALSE}

\* VoiceAgent.__init__ and the callback registrations that precede start()
AgentInit ==
    /\ tier \in TierChoices
    /\ language \in LanguageChoices
    /\ on_audio_cb \in AudioCallbackChoices
    /\ on_transcript_cb \in TranscriptCallbackChoices
    /\ transcript_seen = <<>>
    /\ state = VoiceAgentState
    /\ connection = FALSE
    /\ tasks = <<>>
    /\ startPc = "idle"
    /\ stopPc = "idle"
    /\ audio_forwarded = FALSE
    /\ llm_options = NoChatOptions
    /\ live_options = NoLiveOptions

\* transcripts, turns, generation, synthesis and interrupts
TurnNext ==
    \/ \E text \in Transcripts, is_final \in Finals :
         handle_transcript(text, is_final)
    \/ \E i \in Ids : process_turn_skip(i)
    \/ \E i \in Ids : process_turn_begin(i)
    \/ \E i \in Ids : llm_request(i)
    \/ \E i \in Ids : llm_chunk(i)
    \/ \E i \in Ids : llm_end(i)
    \/ \E i \in Ids : llm_raise(i)
    \/ \E i \in Ids : tts_chunk(i)
    \/ \E i \in Ids : tts_end(i)
    \/ \E i \in Ids : tts_raise(i)
    \/ interrupt

\* starting and stopping the transcription stream
SessionNext ==
    \/ start_call
    \/ start_return
    \/ stop_call
    \/ stop_return

---------------------------------------------------------------------------
(* The worker: input validation *)

\* MAX_TOKENS, from the environment, default 2048
MAX_TOKENS == 2048

\* an optional value: <<>> is a key the input does not hold (or None),
\* <<v>> the value v
Absent == <<>>

Some(v) == <<v>>

\* the generation parameters besides max_tokens: all defaults, or one of them
\* out of its bounds; temperature, top_p and the penalties are in hundredths
Defaults ==
    [temperature |-> Absent, top_p |-> Absent, top_k |-> Absent,
     presence_penalty |-> Absent, frequency_penalty |-> Absent]

OtherParameters ==
    { Defaults,
      [Defaults EXCEPT !.temperature = Some(-1)],
      [Defaults EXCEPT !.temperature = Some(201)],
      [Defaults EXCEPT !.top_p = Some(101)],
      [Defaults EXCEPT !.top_k = Some(-1)],
      [Defaults EXCEPT !.presence_penalty = Some(201)],
      [Defaults EXCEPT !.frequency_penalty = Some(-201)] }

\* the job inputs a run draws from
JobInputs ==
    { [prompt |-> p, messages |-> m, max_tokens |-> t,
       temperature |-> o.temperature, top_p |-> o.top_p, top_k |-> o.top_k,
       presence_penalty |-> o.presence_penalty,
       frequency_penalty |-> o.frequency_penalty,
       stream |-> s, return_usage |-> u] :
        p \in {Absent, Some("p")},
        m \in {Absent, Some(<<>>), Some(<<"m">>)},
        t \in {Absent, Some(0), Some(MAX_TOKENS), Some(MAX_TOKENS + 1)},
        o \in OtherParameters,
        s \in {Absent, Some(TRUE)},
        u \in {Absent, Some(FALSE)} }

\* job.get("input", {}) of a job without input
EmptyInput ==
    [prompt |-> Absent, messages |-> Absent, max_tokens |-> Absent,
     temperature |-> Absent, top_p |-> Absent, top_k |-> Absent,
     presence_penalty |-> Absent, frequency_penalty |-> Absent,
     stream |-> Absent, return_usage |-> Absent]

\* the value of a field, or its default when the input does not hold it
Default(v, d) == IF v = Absent THEN d ELSE v[1]

\* the fields of InferenceInput once the defaults are applied
Fields(inp) ==
    [prompt |-> inp.prompt,
     messages |-> inp.messages,
     max_tokens |-> Default(inp.max_tokens, 512),
     temperature |-> Default(inp.temperature, 70),
     top_p |-> Default(inp.top_p, 95),
     top_k |-> Default(inp.top_k, 50),
     presence_penalty |-> Default(inp.presence_penalty, 0),
     frequency_penalty |-> Default(inp.frequency_penalty, 0),
     stream |-> Default(inp.stream, FALSE),
     return_usage |-> Default(inp.return_usage, TRUE)]

\* an InferenceInput without the upper bound of max_tokens and without the
\* test in __init__
ValidUnchecked(v) ==
    /\ v.max_tokens >= 1
    /\ v.temperature >= 0 /\ v.temperature <= 200
    /\ v.top_p >= 0 /\ v.top_p <= 100
    /\ v.top_k >= 0
    /\ v.presence_penalty >= -200 /\ v.presence_penalty <= 200
    /\ v.frequency_penalty >= -200 /\ v.frequency_penalty <= 200

\* InferenceInput(**job_input) does not raise: the Field bounds hold and
\* __init__ finds a prompt or messages
Valid(v) ==
    /\ v.max_tokens >= 1 /\ v.max_tokens <= MAX_TOKENS
    /\ v.temperature >= 0 /\ v.temperature <= 200
    /\ v.top_p >= 0 /\ v.top_p <= 100
    /\ v.top_k >= 0
    /\ v.presence_penalty >= -200 /\ v.presence_penalty <= 200
    /\ v.frequency_penalty >= -200 /\ v.frequency_penalty <= 200
    /\ ~(v.prompt = Absent /\ v.messages = Absent)

\* the validated input of the invocation
validated == Fields(job_input)

\* format_prompt: the chat template applied to the messages when there are
\* any, else the prompt (which may be None)
FormatPrompt(v) ==
    IF v.messages # Absent /\ v.messages[1] # <<>>
    THEN Some("chat_template")
    ELSE v.prompt

---------------------------------------------------------------------------
(* The worker: handler *)

\* WorkerMetrics()
WorkerMetrics ==
    [total_requests |-> 0, successful_requests |-> 0, failed_requests |-> 0]

\* WorkerMetrics.record
Record(m, success) ==
    [total_requests |-> m.total_requests + 1,
     successful_requests |-> m.successful_requests + (IF success THEN 1 ELSE 0),
     failed_requests |-> m.failed_requests + (IF success THEN 0 ELSE 1)]

\* handler has returned nothing yet
NoResult == [status |-> "NONE"]

\* a handler whose validation return leaves without the finally block
AfterReturnValidationDirect(p) ==
    IF p = "validation" THEN "returned" ELSE "finally"

\* where a return statement inside handler's try block leads: every return
\* passes through the finally block
AfterReturn(p) == "finally"

\* a handler without the except block for the out-of-memory error
ExceptionResultGeneric(kind) ==
    [error |-> "str(e)", status |-> "ERROR", retry |-> TRUE]

\* what the except blocks of handler return
ExceptionResult(kind) ==
    IF kind = "oom"
    THEN [error |-> "GPU out of memory. Try reducing max_tokens or input length.",
          status |-> "OOM_ERROR", retry |-> FALSE]
    ELSE [error |-> "str(e)", status |-> "ERROR", retry |-> TRUE]

\* handler(job) is called
handler_call(inp) ==
    /\ wpc \in {"idle", "returned"}
    /\ streamPc # "iterating"
    /\ nJobs < MaxJobs
    /\ nJobs' = nJobs + 1
    /\ job_input' = inp
    /\ wpc' = "validate"
    /\ result' = NoResult
    /\ path' = None
    /\ raised' = None
    /\ reached' = {}
    /\ cleanups' = 0
    /\ generation' = "none"
    /\ streamPc' = "none"
    /\ UNCHANGED metrics
    /\ UNCHANGED <<voiceVars, extVars>>

\* the inner try block: InferenceInput(**job_input)
validate_input ==
    /\ wpc = "validate"
    /\ IF Valid(validated)
       THEN /\ wpc' = "format"
            /\ UNCHANGED <<result, path>>
       ELSE /\ result' = [error |-> "Validation error",
                          status |-> "VALIDATION_FAILED", retry |-> FALSE]
            /\ path' = "validation"
            /\ wpc' = AfterReturn("validation")
    /\ UNCHANGED <<job_input, raised, reached, cleanups, generation, streamPc,
                   metrics, nJobs>>
    /\ UNCHANGED <<voiceVars, extVars>>

\* prompt = format_prompt(validated); the chat template may raise
format_prompt ==
    /\ wpc = "format"
    /\ reached' = reached \cup {"format"}
    /\ \/ /\ wpc' = IF validated.stream THEN "stream" ELSE "infer"
          /\ UNCHANGED raised
       \/ /\ FormatPrompt(validated) = Some("chat_template")
          /\ raised' = "other"
          /\ wpc' = "except"
    /\ UNCHANGED <<job_input, result, path, cleanups, generation, streamPc,
                   metrics, nJobs>>
    /\ UNCHANGED <<voiceVars, extVars>>

\* return run_inference_stream(...): calling a generator function runs none
\* of its body; handler returns the generator
return_stream ==
    /\ wpc = "stream"
    /\ result' = [generator |-> "run_inference_stream"]
    /\ streamPc' = "unstarted"
    /\ path' = "stream"
    /\ wpc' = AfterReturn("stream")
    /\ UNCHANGED <<job_input, raised, reached, cleanups, generation, metrics,
                   nJobs>>
    /\ UNCHANGED <<voiceVars, extVars>>

\* run_inference up to model.generate: the tokenizer raises on a prompt that
\* is None
run_inference ==
    /\ wpc = "infer"
    /\ reached' = reached \cup {"inference"}
    /\ IF FormatPrompt(validated) = Absent
       THEN /\ raised' = "other"
            /\ wpc' = "except"
            /\ UNCHANGED generation
       ELSE /\ generation' = "running"
            /\ wpc' = "generating"
            /\ UNCHANGED raised
    /\ UNCHANGED <<job_input, result, path, cleanups, streamPc, metrics, nJobs>>
    /\ UNCHANGED <<voiceVars, extVars>>

\* model.generate returns inside run_inference: the metrics are recorded and
\* the result is built
generate_done ==
    /\ wpc = "generating"
    /\ generation' = "finished"
    /\ metrics' = Record(metrics, TRUE)
    /\ result' = [response |-> "text", status |-> "SUCCESS",
                  usage |-> validated.return_usage]
    /\ path' = "success"
    /\ wpc' = AfterReturn("success")
    /\ UNCHANGED <<job_input, raised, reached, cleanups, streamPc, nJobs>>
    /\ UNCHANGED <<voiceVars, extVars>>

\* model.generate raises inside run_inference
generate_raise(kind) ==
    /\ wpc = "generating"
    /\ generation' = "failed"
    /\ raised' = kind
    /\ wpc' = "except"
    /\ UNCHANGED <<job_input, result, path, reached, cleanups, streamPc, metrics,
                   nJobs>>
    /\ UNCHANGED <<voiceVars, extVars>>

\* the except blocks of handler
handle_exception ==
    /\ wpc = "except"
    /\ metrics' = Record(metrics, FALSE)
    /\ result' = ExceptionResult(raised)
    /\ path' = raised
    /\ wpc' = AfterReturn(raised)
    /\ UNCHANGED <<job_input, raised, reached, cleanups, generation, streamPc,
                   nJobs>>
    /\ UNCHANGED <<voiceVars, extVars>>

\* the finally block of handler: the GPU cache is released and garbage is
\* collected; handler returns
cleanup ==
    /\ wpc = "finally"
    /\ cleanups' = cleanups + 1
    /\ wpc' = "returned"
    /\ UNCHANGED <<job_input, result, path, raised, reached, generation, streamPc,
                   metrics, nJobs>>
    /\ UNCHANGED <<voiceVars, extVars>>

\* the caller takes the first item from the returned generator: the body of
\* run_inference_stream starts, tokenizes and starts the generation thread
stream_start ==
    /\ wpc = "returned"
    /\ streamPc = "unstarted"
    /\ IF FormatPrompt(validated) = Absent
       THEN /\ streamPc' = "raised"
            /\ UNCHANGED generation
       ELSE /\ streamPc' = "iterating"
            /\ generation' = "running"
    /\ UNCHANGED <<job_input, wpc, result, path, raised, reached, cleanups,
                   metrics, nJobs>>
    /\ UNCHANGED <<voiceVars, extVars>>

\* the generation thread of run_inference_stream ends: it finished, or it
\* raised (the streamer is then never closed and the iteration hangs)
stream_generated(ok) ==
    /\ streamPc = "iterating"
    /\ generation = "running"
    /\ generation' = IF ok THEN "finished" ELSE "failed"
    /\ UNCHANGED <<job_input, wpc, result, path, raised, reached, cleanups,
                   streamPc, metrics, nJobs>>
    /\ UNCHANGED <<voiceVars, extVars>>

\* the streamer is exhausted: thread.join() and the last item
stream_end ==
    /\ streamPc = "iterating"
    /\ generation = "finished"
    /\ streamPc' = "exhausted"
    /\ UNCHANGED <<job_input, wpc, result, path, raised, reached, cleanups,
                   generation, metrics, nJobs>>
    /\ UNCHANGED <<voiceVars, extVars>>

\* the worker process after the model is loaded
WorkerInit ==
    /\ job_input = EmptyInput
    /\ wpc = "idle"
    /\ result = NoResult
    /\ path = None
    /\ raised = None
    /\ reached = {}
    /\ cleanups = 0
    /\ generation = "none"
    /\ streamPc = "none"
    /\ metrics = WorkerMetrics
    /\ nJobs = 0

WorkerNext ==
    \/ \E inp \in JobInputs : handler_call(inp)
    \/ validate_input
    \/ format_prompt
    \/ return_stream
    \/ run_inference
    \/ generate_done
    \/ \E kind \in {"oom", "other"} : generate_raise(kind)
    \/ handle_exception
    \/ cleanup
    \/ stream_start
    \/ \E ok \in BOOLEAN : stream_generated(ok)
    \/ stream_end

---------------------------------------------------------------------------
(* The training data generator: JSON *)

\* JSON values; an object is its members in order, text is a sequence
JString(text) == [t |-> "string", v |-> text]

JNull == [t |-> "null", v |-> <<>>]

JObject(members) == [t |-> "object", v |-> members]

JArray(items) == [t |-> "array", v |-> items]

\* a member of an object
Member(key, value) == [key |-> key, value |-> value]

\* JSON text is a sequence of tokens: punctuation, string literals, null
Token(kind, text) == [k |-> kind, s |-> text]

Punct(c) == Token("punct", <<c>>)

IsPunct(tok, c) == tok.k = "punct" /\ tok.s = <<c>>

\* json.dumps
RECURSIVE Dumps(_), DumpsMembers(_), DumpsItems(_)
Dumps(val) ==
    CASE val.t = "string" -> <<Token("string", val.v)>>
      [] val.t = "null"   -> <<Token("null", <<>>)>>
      [] val.t = "object" -> <<Punct("{")>> \o DumpsMembers(val.v) \o <<Punct("}")>>
      [] val.t = "array"  -> <<Punct("[")>> \o DumpsItems(val.v) \o <<Punct("]")>>

DumpsMembers(members) ==
    IF Len(members) = 0 THEN <<>>
    ELSE <<Token("string", members[1].key), Punct(":")>>
         \o Dumps(members[1].value)
         \o (IF Len(members) > 1 THEN <<Punct(",")>> ELSE <<>>)
         \o DumpsMembers(Tail(members))

DumpsItems(items) ==
    IF Len(items) = 0 THEN <<>>
    ELSE Dumps(items[1])
         \o (IF Len(items) > 1 THEN <<Punct(",")>> ELSE <<>>)
         \o DumpsItems(Tail(items))

\* the outcome of parsing: the value and the tokens after it, or a failure
Parsed(val, rest) == [ok |-> TRUE, val |-> val, rest |-> rest]

ParseError == [ok |-> FALSE, val |-> JNull, rest |-> <<>>]

\* the JSON decoder: one value at the head of the tokens
RECURSIVE ParseValue(_), ParseMembers(_, _), ParseItems(_, _)
ParseValue(ts) ==
    IF Len(ts) = 0 THEN ParseError
    ELSE CASE ts[1].k = "string" -> Parsed(JString(ts[1].s), Tail(ts))
           [] ts[1].k = "null"   -> Parsed(JNull, Tail(ts))
           [] IsPunct(ts[1], "{") ->
                IF Len(ts) >= 2 /\ IsPunct(ts[2], "}")
                THEN Parsed(JObject(<<>>), SubSeq(ts, 3, Len(ts)))
                ELSE ParseMembers(Tail(ts), <<>>)
           [] IsPunct(ts[1], "[") ->
                IF Len(ts) >= 2 /\ IsPunct(ts[2], "]")
                THEN Parsed(JArray(<<>>), SubSeq(ts, 3, Len(ts)))
                ELSE ParseItems(Tail(ts), <<>>)
           [] OTHER -> ParseError

ParseMembers(ts, acc) ==
    IF Len(ts) < 3 THEN ParseError
    ELSE IF ts[1].k # "string" \/ ~IsPunct(ts[2], ":") THEN ParseError
    ELSE LET r == ParseValue(SubSeq(ts, 3, Len(ts)))
         IN IF ~r.ok \/ Len(r.rest) = 0 THEN ParseError
            ELSE LET acc2 == Append(acc, Member(ts[1].s, r.val))
                 IN IF IsPunct(r.rest[1], "}")
                    THEN Parsed(JObject(acc2), Tail(r.rest))
                    ELSE IF IsPunct(r.rest[1], ",")
                    THEN ParseMembers(Tail(r.rest), acc2)
                    ELSE ParseError

ParseItems(ts, acc) ==
    LET r == ParseValue(ts)
    IN IF ~r.ok \/ Len(r.rest) = 0 THEN ParseError
       ELSE LET acc2 == Append(acc, r.val)
            IN IF IsPunct(r.rest[1], "]")
               THEN Parsed(JArray(acc2), Tail(r.rest))
               ELSE IF IsPunct(r.rest[1], ",")
               THEN ParseItems(Tail(r.rest), acc2)
               ELSE ParseError

\* json.loads: the whole text is one value, else JSONDecodeError
Loads(ts) ==
    LET r == ParseValue(ts)
    IN IF r.ok /\ Len(r.rest) = 0 THEN r ELSE ParseError

\* key in d, for a dict d
HasKey(val, key) ==
    val.t = "object" /\ \E i \in 1..Len(val.v) : val.v[i].key = key

\* d[key] for a dict that holds the key: the last member of that key
Get(val, key) ==
    val.v[CHOOSE i \in 1..Len(val.v) :
            /\ val.v[i].key = key
            /\ \A j \in (i + 1)..Len(val.v) : val.v[j].key # key].value

\* bool(value)
Truthy(val) == val.t # "null" /\ Len(val.v) > 0

\* "company_name" in extraction: a key of a dict, an item of a list; on a
\* string a substring test (the key is one unit of text here), on None a
\* TypeError
InValue(key, val) ==
    CASE val.t = "object" -> HasKey(val, key)
      [] val.t = "array" ->
           \E i \in 1..Len(val.v) : val.v[i].t = "string" /\ val.v[i].v = key
      [] val.t = "string" -> \E i \in 1..Len(val.v) : <<val.v[i]>> = key
      [] OTHER -> FALSE

---------------------------------------------------------------------------
(* The training data generator: records *)

\* CONFIG["min_transcript_length"]
MinTranscriptLength == 50
\* CONFIG["max_transcript_length"]
MaxTranscriptLength == 2000
\* the shortest transcript parse_variations keeps is longer than this
MinVariationLength == 30

\* a text of n characters
Filler(n) == [i \in 1..n |-> "x"]

\* texts of one unit: keys and roles
CompanyName == <<"company_name">>

SYSTEM_PROMPT == <<"You are a sales call extraction assistant">>

\* a message of a conversation
Message(role, content) ==
    JObject(<<Member(<<"role">>, JString(<<role>>)),
              Member(<<"content">>, JString(content))>>)

\* format_for_training
format_for_training(transcript, extraction) ==
    JObject(<<Member(<<"conversations">>,
                     JArray(<<Message("system", SYSTEM_PROMPT),
                              Message("user", Strip(transcript)),
                              Message("assistant", Dumps(extraction))>>))>>)

\* example["conversations"][i]["content"]
Content(example, i) == Get(Get(example, <<"conversations">>).v[i], <<"content">>).v

\* example["conversations"][i]["role"]
Role(example, i) == Get(Get(example, <<"conversations">>).v[i], <<"role">>).v

\* extractions: of a lead with a company, without the key, with a null or an
\* empty company name, and a list
Lead(name) ==
    JObject(<<Member(CompanyName, JString(<<name>>)),
              Member(<<"contact_name">>, JNull),
              Member(<<"pain_points">>, JArray(<<JString(<<"pricing">>)>>))>>)

LeadWithoutCompany ==
    JObject(<<Member(<<"contact_name">>, JString(<<"Mike">>))>>)

LeadWithNullCompany ==
    JObject(<<Member(CompanyName, JNull), Member(<<"next_step">>, JString(<<"demo">>))>>)

LeadWithEmptyCompany == JObject(<<Member(CompanyName, JString(<<>>))>>)

LeadList == JArray(<<JString(CompanyName)>>)

\* a seed example, a variation, a template example
Example(transcript, extraction) ==
    [transcript |-> transcript, extraction |-> extraction]

\* SEED_EXAMPLES
SEED_EXAMPLES ==
    <<Example(<<" ", "s">> \o Filler(MinTranscriptLength) \o <<" ">>,
              Lead("Reliable Mechanical"))>>

\* what a seed file can hold
SeedChoices ==
    { Example(<<"s">> \o Filler(MinTranscriptLength), Lead("Reliable Mechanical")),
      Example(<<"a">> \o Filler(MinTranscriptLength), LeadWithoutCompany),
      Example(<<"b">> \o Filler(MinTranscriptLength), LeadWithNullCompany),
      Example(<<"c">> \o Filler(MinTranscriptLength), LeadList),
      Example(<<" ">> \o Filler(MinTranscriptLength - 1) \o <<" ">>, Lead("Short")),
      Example(Filler(MaxTranscriptLength + 1), Lead("Long")) }

\* the seeds of a run: the built-in ones, or the content of a seed file
SeedLists ==
    {SEED_EXAMPLES}
    \cup UNION {[1..n -> SeedChoices] : n \in 0..MaxSeeds}

\* the variations an LLM response can hold, as parse_variations reads them
VariationChoices ==
    { Example(<<"v">> \o Filler(MinTranscriptLength), Lead("Apex Plumbing")),
      Example(<<"w">> \o Filler(MinTranscriptLength), LeadWithEmptyCompany),
      Example(<<"u">> \o Filler(MinVariationLength), Lead("Apex Plumbing")),
      Example(Filler(MinVariationLength), Lead("Apex Plumbing")) }

\* the variations the response to one call of generate_variations_* holds
VariationResponses ==
    UNION {[1..n -> VariationChoices] : n \in 0..MaxVariations}

\* parse_variations keeps a variation with a company name and a transcript of
\* more than 30 characters
KeptVariation(variation) ==
    /\ HasKey(variation.extraction, CompanyName)
    /\ Truthy(Get(variation.extraction, CompanyName))
    /\ Len(Strip(variation.transcript)) > MinVariationLength

parse_variations(response) == SelectSeq(response, KeptVariation)

\* generate_transcript_template: the transcript ends with a period and the
\* extraction is ExtractedLead.to_dict() of a lead with a company name
TemplateChoices ==
    { Example(<<"t">> \o Filler(MinTranscriptLength) \o <<".">>, Lead("Summit HVAC")),
      Example(<<"r">> \o Filler(MinTranscriptLength) \o <<".">>, Lead("Garcia Electric")) }

\* the examples of a list of inputs, formatted
Formatted(examples) ==
    [i \in 1..Len(examples) |->
       format_for_training(examples[i].transcript, examples[i].extraction)]

\* Step 4: the first example of every transcript (equal hashes are taken to
\* mean equal transcripts)
RECURSIVE Deduplicate(_, _)
Deduplicate(examples, unique) ==
    IF Len(examples) = 0 THEN unique
    ELSE IF \E i \in 1..Len(unique) : Content(unique[i], 2) = Content(examples[1], 2)
    THEN Deduplicate(Tail(examples), unique)
    ELSE Deduplicate(Tail(examples), Append(unique, examples[1]))

\* Step 5: the extraction of an example parses and has a company name; an
\* extraction that is no dict raises inside the try and is dropped
HasCompany(example) ==
    LET r == Loads(Content(example, 3))
    IN /\ r.ok
       /\ r.val.t = "object"
       /\ HasKey(r.val, CompanyName)
       /\ Truthy(Get(r.val, CompanyName))

\* a quality filter that looks at the length of the transcript only
PassesLength(example) ==
    /\ Len(Content(example, 2)) >= MinTranscriptLength
    /\ Len(Content(example, 2)) <= MaxTranscriptLength

\* Step 5: the quality filter
PassesQuality(example) ==
    /\ Len(Content(example, 2)) >= MinTranscriptLength
    /\ Len(Content(example, 2)) <= MaxTranscriptLength
    /\ HasCompany(example)

\* random.shuffle and the write of one line per example
Shuffled(examples) ==
    { [i \in 1..Len(examples) |-> Dumps(examples[p[i]])] :
        p \in Permutations(1..Len(examples)) }

\* what validate_data asserts of one line
ValidLine(line) ==
    LET r == Loads(line)
    IN /\ r.ok
       /\ InValue(<<"conversations">>, r.val)
       /\ r.val.t = "object"
       /\ Get(r.val, <<"conversations">>).t = "array"
       /\ Len(Get(r.val, <<"conversations">>).v) = 3
       /\ \A i \in 1..3 :
            LET m == Get(r.val, <<"conversations">>).v[i]
            IN m.t = "object" /\ HasKey(m, <<"role">>)
       /\ Role(r.val, 1) = <<"system">>
       /\ Role(r.val, 2) = <<"user">>
       /\ Role(r.val, 3) = <<"assistant">>
       /\ HasKey(Get(r.val, <<"conversations">>).v[3], <<"content">>)
       /\ LET e == Loads(Content(r.val, 3))
          IN e.ok /\ InValue(CompanyName, e.val)

\* validate_data has not run
NoReport == [total |-> -1, valid |-> -1]

---------------------------------------------------------------------------
(* The training data generator: generate_all_data, the template-only      *)
(* command and validate_data                                               *)

\* Step 1 of generate_all_data: the seeds are loaded and formatted
add_seeds ==
    /\ dpc = "start"
    /\ command = "generate"
    /\ all_examples' = Formatted(seeds)
    /\ seed_index' = 0
    /\ dpc' = "variations"
    /\ UNCHANGED <<command, seeds, output_file, report>>
    /\ UNCHANGED <<voiceVars, workerVars, factoryVars, clientVars, demoVars,
                   callbackVars>>

\* Step 2, one seed: the LLM answers and the variations parse_variations
\* keeps are formatted
generate_variations(response) ==
    /\ dpc = "variations"
    /\ seed_index < Len(seeds)
    /\ all_examples' = all_examples \o Formatted(parse_variations(response))
    /\ seed_index' = seed_index + 1
    /\ UNCHANGED <<command, seeds, dpc, output_file, report>>
    /\ UNCHANGED <<voiceVars, workerVars, factoryVars, clientVars, demoVars,
                   callbackVars>>

\* Step 2, one seed: the call raises and the seed is skipped
generate_variations_raise ==
    /\ dpc = "variations"
    /\ seed_index < Len(seeds)
    /\ seed_index' = seed_index + 1
    /\ UNCHANGED <<command, seeds, dpc, all_examples, output_file, report>>
    /\ UNCHANGED <<voiceVars, workerVars, factoryVars, clientVars, demoVars,
                   callbackVars>>

\* Step 3: the template examples are formatted
add_templates(templates) ==
    /\ dpc = "variations"
    /\ seed_index = Len(seeds)
    /\ all_examples' = all_examples \o Formatted(templates)
    /\ dpc' = "collected"
    /\ UNCHANGED <<command, seeds, seed_index, output_file, report>>
    /\ UNCHANGED <<voiceVars, workerVars, factoryVars, clientVars, demoVars,
                   callbackVars>>

\* Steps 4 to 6: the examples are deduplicated, filtered, shuffled and
\* written, one line per example
save_examples ==
    /\ dpc = "collected"
    /\ \E lines \in Shuffled(SelectSeq(Deduplicate(all_examples, <<>>),
                                       PassesQuality)) :
         output_file' = Some(lines)
    /\ dpc' = "saved"
    /\ UNCHANGED <<command, seeds, seed_index, all_examples, report>>
    /\ UNCHANGED <<voiceVars, workerVars, factoryVars, clientVars, demoVars,
                   callbackVars>>

\* the template-only command: template examples are formatted, shuffled and
\* written
template_only(templates) ==
    /\ dpc = "start"
    /\ command = "template-only"
    /\ all_examples' = Formatted(templates)
    /\ \E lines \in Shuffled(Formatted(templates)) : output_file' = Some(lines)
    /\ dpc' = "saved"
    /\ UNCHANGED <<command, seeds, seed_index, report>>
    /\ UNCHANGED <<voiceVars, workerVars, factoryVars, clientVars, demoVars,
                   callbackVars>>

\* validate_data counts the lines and the lines that pass its assertions
validate_data ==
    /\ dpc = "saved"
    /\ report' = [total |-> Len(output_file[1]),
                  valid |-> Cardinality({i \in 1..Len(output_file[1]) :
                                           ValidLine(output_file[1][i])})]
    /\ dpc' = "validated"
    /\ UNCHANGED <<command, seeds, seed_index, all_examples, output_file>>
    /\ UNCHANGED <<voiceVars, workerVars, factoryVars, clientVars, demoVars,
                   callbackVars>>

\* no generator is run
DataIdle ==
    /\ command = "none"
    /\ seeds = <<>>
    /\ dpc = "idle"
    /\ seed_index = 0
    /\ all_examples = <<>>
    /\ output_file = Absent
    /\ report = NoReport

\* generate_training_data.py is started with a command and a seed file
DataInit ==
    /\ command \in {"generate", "template-only"}
    /\ seeds \in SeedLists
    /\ command = "template-only" => seeds = SEED_EXAMPLES
    /\ dpc = "start"
    /\ seed_index = 0
    /\ all_examples = <<>>
    /\ output_file = Absent
    /\ report = NoReport

DataNext ==
    \/ add_seeds
    \/ \E response \in VariationResponses : generate_variations(response)
    \/ generate_variations_raise
    \/ \E templates \in [1..TemplateExamples -> TemplateChoices] :
         add_templates(templates)
    \/ save_examples
    \/ \E templates \in [1..TemplateOnlyExamples -> TemplateChoices] :
         template_only(templates)
    \/ validate_data

---------------------------------------------------------------------------
(* The factory: create_voice_agent *)

\* the Tier members by value, the Language members by value
TierValues ==
    { <<"f","r","e","e">>, <<"s","t","a","r","t","e","r">>, <<"p","r","o">>,
      <<"e","n","t","e","r","p","r","i","s","e">> }

LanguageValues == { <<"e","n">>, <<"e","s">> }

\* str.lower(), on the letters the inputs use
LowerChar(c) ==
    CASE c = "P" -> "p" [] c = "R" -> "r" [] c = "O" -> "o"
      [] c = "E" -> "e" [] c = "S" -> "s" [] c = "N" -> "n"
      [] c = "Q" -> "q"
      [] OTHER -> c

Lower(text) == [i \in 1..Len(text) |-> LowerChar(text[i])]

\* a Tier lookup that falls back to ENTERPRISE
TierOrEnterprise(value) ==
    CASE value = <<"f","r","e","e">> -> "free"
      [] value = <<"s","t","a","r","t","e","r">> -> "starter"
      [] value = <<"p","r","o">> -> "pro"
      [] OTHER -> "enterprise"

\* Tier(value): the member of that value; the call raises ValueError when
\* there is none
Tier(value) ==
    CASE value = <<"f","r","e","e">> -> "free"
      [] value = <<"s","t","a","r","t","e","r">> -> "starter"
      [] value = <<"p","r","o">> -> "pro"
      [] value = <<"e","n","t","e","r","p","r","i","s","e">> -> "enterprise"
      [] OTHER -> "ValueError"

\* Language(value)
Language(value) ==
    CASE value = <<"e","n">> -> "en"
      [] value = <<"e","s">> -> "es"
      [] OTHER -> "ValueError"

\* VOICE_PRESETS
VOICE_PRESETS ==
    [p \in {"mexican-woman", "american-man", "spanish-man", "british-woman"} |->
       CASE p = "mexican-woman" ->
              [voice_id |-> "a0e99841", language |-> "es", default_emotion |-> "warm"]
         [] p = "american-man" ->
              [voice_id |-> "bf991597", language |-> "en",
               default_emotion |-> "professional"]
         [] p = "spanish-man" ->
              [voice_id |-> "846d6cb0", language |-> "es", default_emotion |-> "calm"]
         [] p = "british-woman" ->
              [voice_id |-> "71a7ad14", language |-> "en",
               default_emotion |-> "professional"]]

\* CartesiaTTS.__init__: VOICE_PRESETS.get(voice_preset, VOICE_PRESETS["mexican-woman"])
PresetOf(voice_preset) ==
    IF voice_preset \in DOMAIN VOICE_PRESETS
    THEN VOICE_PRESETS[voice_preset]
    ELSE VOICE_PRESETS["mexican-woman"]

\* the arguments create_voice_agent is called with
VoiceArguments == {"mexican-woman", "british-woman", "robot", ""}

TierArguments ==
    { <<"f","r","e","e">>, <<"s","t","a","r","t","e","r">>, <<"P","R","O">>,
      <<"E","n","t","e","r","p","r","i","s","e">>, <<"g","o","l","d">>, <<>> }

LanguageArguments ==
    { <<"e","n">>, <<"E","S">>, <<"e","s">>, <<"f","r">>, <<"e","n","-","U","S">> }

\* create_voice_agent has not been called
NotCalled ==
    [status |-> "none", voice |-> "", tier |-> <<>>, language |-> <<>>]

\* create_voice_agent(prompt, voice, tier, language): the tier and the
\* language are parsed, then the agent is constructed
create_voice_agent(voice, tier_arg, language_arg) ==
    /\ factory.status = "none"
    /\ IF Tier(Lower(tier_arg)) = "ValueError"
          \/ Language(Lower(language_arg)) = "ValueError"
       THEN /\ factory' = [status |-> "raised", voice |-> voice,
                           tier |-> tier_arg, language |-> language_arg]
            /\ UNCHANGED <<tier, language, preset>>
       ELSE /\ factory' = [status |-> "returned", voice |-> voice,
                           tier |-> tier_arg, language |-> language_arg]
            /\ tier' = Tier(Lower(tier_arg))
            /\ language' = Language(Lower(language_arg))
            /\ preset' = PresetOf(voice)
    /\ UNCHANGED <<profile, on_audio_cb, state, connection, tasks, startPc,
                   stopPc, audio_forwarded>>
    /\ UNCHANGED <<workerVars, dataVars, clientVars, demoVars, callbackVars>>

\* no agent is constructed yet
NoAgent ==
    /\ tier = "none"
    /\ language = "none"
    /\ on_audio_cb = FALSE
    /\ on_transcript_cb = FALSE
    /\ transcript_seen = <<>>
    /\ state = VoiceAgentState
    /\ connection = FALSE
    /\ tasks = <<>>
    /\ startPc = "idle"
    /\ stopPc = "idle"
    /\ audio_forwarded = FALSE
    /\ llm_options = NoChatOptions
    /\ live_options = NoLiveOptions

\* an agent built by VoiceAgent(...) with the default voice preset
FactoryIdle ==
    /\ factory = NotCalled
    /\ preset = PresetOf("mexican-woman")

---------------------------------------------------------------------------
(* demo_mode: the text loop around an agent *)

\* the prompts "You: " a run of the loop issues at most
MaxPrompts == 4

\* what the user types at the prompt
DemoInputs == { <<"Q", "u", "i", "t">>, <<" ">>, <<"h", "i", " ">> }

\* demo_mode is not running
NotRunning == [pc |-> "none", prompts |-> 0]

DemoIdle == demo = NotRunning

\* demo_mode has built its agent, registered its callbacks and issued its
\* first prompt: the loop is blocked in input()
\* pc: "input"  blocked in input(), the prompt is on the screen
\*     "sleep"  suspended in asyncio.sleep(0.1) inside the wait loop
\*     "exit"   demo_mode has returned
DemoInit == demo = [pc |-> "input", prompts |-> 1]

\* _handle_transcript(user_input, is_final=True) as the loop calls it
DemoTasks(user_input) ==
    IF Strip(user_input) # <<>>
    THEN Append(tasks, NewTask(user_input))
    ELSE tasks

\* the test of the wait loop, "while agent.state.is_processing": the loop
\* sleeps while the flag is set, else it goes round to the next prompt
AfterWaitTest(d) ==
    IF state.is_processing
    THEN [d EXCEPT !.pc = "sleep"]
    ELSE [d EXCEPT !.pc = "input", !.prompts = @ + 1]

\* One run of the loop of demo_mode without a suspension: from the return of
\* input() to the next input() or to the first asyncio.sleep, or from the
\* return of asyncio.sleep to the next test of the wait loop.
demo_loop(line) ==
    /\ demo.pc \in {"input", "sleep"}
    /\ \A i \in Ids : tasks[i].pc \notin {"request", "stream"}
    /\ LET user_input == Strip(line)
       IN CASE demo.pc = "sleep" ->
                 /\ demo.prompts < MaxPrompts
                 /\ demo' = AfterWaitTest(demo)
                 /\ UNCHANGED <<state, tasks, transcript_seen>>
            [] demo.pc = "input" /\ Lower(user_input) = <<"q", "u", "i", "t">> ->
                 /\ demo' = [demo EXCEPT !.pc = "exit"]
                 /\ UNCHANGED <<state, tasks, transcript_seen>>
            [] demo.pc = "input" /\ user_input = <<>> ->
                 /\ demo.prompts < MaxPrompts
                 /\ demo' = [demo EXCEPT !.prompts = @ + 1]
                 /\ UNCHANGED <<state, tasks, transcript_seen>>
            [] OTHER ->
                 /\ demo.prompts < MaxPrompts
                 /\ Len(tasks) < TaskLimit
                 /\ state' = [state EXCEPT !.current_transcript = user_input]
                 /\ transcript_seen' = Seen(user_input, TRUE)
                 /\ tasks' = DemoTasks(user_input)
                 /\ demo' = AfterWaitTest(demo)
    /\ UNCHANGED <<profile, tier, language, on_audio_cb, connection, startPc,
                   stopPc, audio_forwarded>>
    /\ UNCHANGED <<workerVars, dataVars, factoryVars, clientVars,
                   on_transcript_cb>>

\* asyncio.run(demo_mode()) after demo_mode has returned: the loop runs the
\* steps that were ready, then every turn still suspended is cancelled. The
\* CancelledError arrives at the await inside _speak_text and is no
\* Exception: both finally blocks run, the except block does not.
cancel_turn(i) ==
    /\ demo.pc = "exit"
    /\ LoopFree
    /\ i \in Ids
    /\ Speaking(tasks[i])
    /\ \A j \in Ids : tasks[j].pc # "created"
    /\ tasks' = [tasks EXCEPT ![i] = [@ EXCEPT !.pc = "done",
                                               !.outcome = "cancelled"]]
    /\ state' = Finally([state EXCEPT !.is_speaking = FALSE])
    /\ UNCHANGED <<profile, tier, language, on_audio_cb, connection, startPc,
                   stopPc, audio_forwarded>>
    /\ UNCHANGED <<workerVars, extVars>>

\* the steps of the turns the loop of demo_mode created
DemoNext ==
    \/ \E line \in DemoInputs : demo_loop(line)
    \/ \E i \in Ids : process_turn_skip(i)
    \/ \E i \in Ids : process_turn_begin(i)
    \/ \E i \in Ids : llm_request(i)
    \/ \E i \in Ids : llm_chunk(i)
    \/ \E i \in Ids : llm_end(i)
    \/ \E i \in Ids : llm_raise(i)
    \/ \E i \in Ids : cancel_turn(i)

---------------------------------------------------------------------------
(* Specifications *)

\* the programs a specification does not run
ExtIdle == DataIdle /\ FactoryIdle /\ DemoIdle


\* the voice agent: turns and interrupts on every tier
Init == profile = "turns" /\ AgentInit /\ WorkerInit /\ ExtIdle

Next == TurnNext

Spec == Init /\ [][Next]_vars

\* the voice agent over a conversation longer than the context window
InitLong == profile = "long" /\ AgentInit /\ WorkerInit /\ ExtIdle

NextLong == TurnNext \/ SessionNext

SpecLong == InitLong /\ [][NextLong]_vars

\* the voice agent with its audio input, in both languages, with and without
\* an audio callback
InitAudio == profile = "audio" /\ AgentInit /\ WorkerInit /\ ExtIdle

NextAudio == TurnNext \/ SessionNext \/ send_audio

SpecAudio == InitAudio /\ [][NextAudio]_vars

\* the worker
InitWorker == profile = "worker" /\ AgentInit /\ WorkerInit /\ ExtIdle

NextWorker == WorkerNext

SpecWorker == InitWorker /\ [][NextWorker]_vars

\* the training data generator
InitData ==
    /\ profile = "data"
    /\ AgentInit /\ WorkerInit /\ DataInit /\ FactoryIdle /\ DemoIdle

NextData == DataNext

SpecData == InitData /\ [][NextData]_vars

\* The steps a turn takes once the event loop gives it the chance: the
\* completion stream yields, ends or raises, the synthesis yields, ends or
\* raises.
TurnProgress ==
    \E i \in Ids :
       \/ llm_request(i) \/ llm_chunk(i) \/ llm_end(i) \/ llm_raise(i)
       \/ tts_chunk(i) \/ tts_end(i) \/ tts_raise(i)

\* the voice agent under a fair event loop: a turn that can take a step
\* eventually takes one (the streams end or raise), while transcripts,
\* interrupts, start() and stop() may or may not arrive
InitLive == profile = "live" /\ AgentInit /\ WorkerInit /\ ExtIdle

NextLive == TurnNext \/ SessionNext

SpecLive == InitLive /\ [][NextLive]_vars /\ WF_vars(TurnProgress)

\* the voice agent and the transcripts it is given: interim and final, empty,
\* blank and with text, from the transcription connection or by a direct call,
\* with and without a transcript callback
InitTranscripts == profile = "transcripts" /\ AgentInit /\ WorkerInit /\ ExtIdle

NextTranscripts ==
    \/ TurnNext
    \/ start_call
    \/ start_return
    \/ \E text \in Transcripts, is_final \in Finals :
         stt_handle_transcript(text, is_final)

SpecTranscripts == InitTranscripts /\ [][NextTranscripts]_vars

\* demo_mode: the agent it builds (enterprise, Spanish, mexican-woman, an
\* audio callback) and its input loop
InitDemo ==
    /\ profile = "demo"
    /\ AgentInit /\ WorkerInit /\ DataIdle /\ FactoryIdle /\ DemoInit

NextDemo == DemoNext

SpecDemo == InitDemo /\ [][NextDemo]_vars

\* the factory, and the session of the agent it returns
InitFactory ==
    /\ profile = "factory"
    /\ NoAgent
    /\ WorkerInit
    /\ DataIdle
    /\ DemoIdle
    /\ factory = NotCalled
    /\ preset = PresetOf("mexican-woman")

NextFactory ==
    \/ \E voice \in VoiceArguments, tier_arg \in TierArguments,
          language_arg \in LanguageArguments :
         create_voice_agent(voice, tier_arg, language_arg)
    \/ factory.status = "returned" /\ (SessionNext \/ send_audio)

SpecFactory == InitFactory /\ [][NextFactory]_vars


---------------------------------------------------------------------------
(* Properties of the voice agent *)

\* the coroutines past the is_processing guard
ActiveTurns == {i \in Ids : Active(tasks[i])}

\* C1: at most one _process_turn is past the is_processing guard at any
\* time, and a _process_turn that starts while is_processing is true ends at
\* once: it appends nothing to the history and sends nothing to the LLM.
C1_OneTurnAtATime ==
    /\ [](Cardinality(ActiveTurns) <= 1)
    /\ [][\A i \in Ids :
            (tasks[i].pc = "created" /\ tasks'[i].pc # "created"
               /\ state.is_processing)
            => /\ tasks'[i].pc = "done"
               /\ tasks'[i].messages = <<>>
               /\ state'.conversation_history = state.conversation_history
               /\ state'.turn_count = state.turn_count]_vars

\* C1, the case: a turn was dropped while another one is being processed
C1_Witness ==
    \E i, j \in Ids :
        Active(tasks[i]) /\ tasks[j].pc = "done" /\ tasks[j].outcome = "skipped"

\* the chunks of a stream from position a to position b, concatenated
RECURSIVE Concat(_, _, _)
Concat(chunks, a, b) ==
    IF a > b THEN <<>> ELSE chunks[a] \o Concat(chunks, a + 1, b)

\* the entries of a synthesis log that are segments of the response
IsResponseSegment(e) == e.text # ErrorMessage

\* the stream position at which the segment before entry k started
PreviousPos(f, k) == IF k = 1 THEN 0 ELSE f.spoken[k - 1].pos

\* C2 as stated: every synthesis of a segment of the response starts after a
\* token containing '.', '!' or '?' that ends the segment has been received.
C2_SpeechAfterPunctuation ==
    \A i \in Ids : \A k \in DOMAIN tasks[i].spoken :
        LET f == tasks[i]
            e == f.spoken[k]
        IN IsResponseSegment(e)
           => /\ e.pos >= 1
              /\ \E c \in 1..Len(f.chunks[e.pos]) :
                    f.chunks[e.pos][c] \in {".", "!", "?"}

\* C2, amended: every synthesis of a segment of the response starts after a
\* token containing '.', '!' or '?' that ends the segment has been received,
\* or, for the text left after the last sentence, after the whole stream has
\* been received; the segment is the stripped text received since the
\* segment before it.
C2_SpeechAfterPunctuationOrEnd ==
    \A i \in Ids : \A k \in DOMAIN tasks[i].spoken :
        LET f == tasks[i]
            e == f.spoken[k]
        IN IsResponseSegment(e)
           => /\ \/ /\ e.pos >= 1
                    /\ \E c \in 1..Len(f.chunks[e.pos]) :
                          f.chunks[e.pos][c] \in {".", "!", "?"}
                 \/ /\ e.pos = Len(f.chunks)
                    /\ f.pc \notin {"stream", "speak"}
              /\ e.pos <= f.pos
              /\ e.text = Strip(Concat(f.chunks, PreviousPos(f, k) + 1, e.pos))

\* C2, the case: a sentence has been spoken and the text after it, which no
\* punctuation ends, is being spoken
C2_Witness ==
    \E i \in Ids :
        /\ tasks[i].pc = "speak_rest"
        /\ Len(tasks[i].spoken) = 2
        /\ tasks[i].spoken[2].text = <<"b">>

\* C3: interrupt() clears is_speaking exactly when the tier enables
\* interrupts and the agent is speaking, and changes no other field of the
\* agent state; on the FREE tier it changes nothing.
C3_InterruptIsAFlagChange ==
    [][interrupt
       => /\ state'.is_speaking =
                IF tier_config.enable_interrupts /\ state.is_speaking
                THEN FALSE ELSE state.is_speaking
          /\ state'.is_processing = state.is_processing
          /\ state'.is_listening = state.is_listening
          /\ state'.current_transcript = state.current_transcript
          /\ state'.conversation_history = state.conversation_history
          /\ state'.turn_count = state.turn_count
          /\ (tier = "free" => state' = state)
          /\ (tier # "free" /\ state.is_speaking => ~state'.is_speaking)]_vars

\* C3, the case: an interrupt has cleared is_speaking during a synthesis
C3_Witness ==
    \E i \in Ids :
        Speaking(tasks[i]) /\ tasks[i].interrupted /\ ~state.is_speaking

\* the segments a response is spoken in: the stripped text up to each token
\* that contains punctuation, then the stripped rest if it is not blank
RECURSIVE SegmentsOf(_, _)
SegmentsOf(tokens, buffer) ==
    IF tokens = <<>>
    THEN IF Strip(buffer) # <<>> THEN <<Strip(buffer)>> ELSE <<>>
    ELSE LET b == buffer \o Head(tokens)
         IN IF \E c \in 1..Len(Head(tokens)) : Head(tokens)[c] \in {".", "!", "?"}
            THEN <<Strip(b)>> \o SegmentsOf(Tail(tokens), <<>>)
            ELSE SegmentsOf(Tail(tokens), b)

\* C4: a turn in which interrupt() cleared is_speaking, and in which nothing
\* raised, has synthesized every segment of the whole response, has handed
\* every audio chunk of every synthesis to the audio callback, and has
\* appended the whole response to the history.
C4_InterruptCancelsNothing ==
    \A i \in Ids :
        LET f == tasks[i]
            h == state.conversation_history
        IN (f.interrupted /\ f.pc = "done" /\ f.outcome = "ok")
           => /\ f.pos = Len(f.chunks)
              /\ [k \in DOMAIN f.spoken |-> f.spoken[k].text]
                   = SegmentsOf(f.chunks, <<>>)
              /\ \A k \in DOMAIN f.spoken :
                    on_audio_cb => f.spoken[k].delivered = f.spoken[k].total
              /\ h # <<>>
              /\ h[Len(h)] = [role |-> "assistant",
                              content |-> Concat(f.chunks, 1, Len(f.chunks))]

\* C4, the case: a turn of two segments was interrupted and has completed
C4_Witness ==
    \E i \in Ids :
        /\ tasks[i].interrupted
        /\ tasks[i].outcome = "ok"
        /\ Len(tasks[i].spoken) = 2
        /\ tasks[i].spoken[1].total = MaxChunks


---------------------------------------------------------------------------
(* Properties of the worker *)

\* C5: in every invocation of handler the cleanup step has run exactly once
\* when handler has returned, whichever way it returns (success, validation
\* failure, streaming return, out of memory, other exception), and has not
\* run before.
C5_CleanupExactlyOnce ==
    /\ wpc = "returned"
         => /\ cleanups = 1
            /\ path \in {"success", "validation", "stream", "oom", "other"}
    /\ wpc \in {"validate", "format", "stream", "infer", "generating", "except",
                "finally"}
         => cleanups = 0

\* C5, the case: handler has returned the generator of a streaming job
C5_Witness ==
    wpc = "returned" /\ path = "stream" /\ cleanups = 1

\* C6: handler generates synchronously: for every job, streaming jobs
\* included, the generation of the job has finished when handler returns, and
\* no generation of the job runs after the cleanup step.
C6_GenerationBeforeReturn ==
    /\ (wpc = "returned" /\ path \in {"success", "stream"})
         => generation = "finished"
    /\ cleanups >= 1 => generation # "running"

\* C7: an exception raised while handler formats the prompt or runs inference
\* does not leave handler: handler returns a result with an error and a
\* status, "OOM_ERROR" with retry false for a CUDA out-of-memory error,
\* "ERROR" with retry true for every other exception.
C7_ExceptionsBecomeResults ==
    /\ wpc = "except" => raised \in {"oom", "other"}
    /\ (wpc = "returned" /\ raised # None)
         => /\ DOMAIN result = {"error", "status", "retry"}
            /\ raised = "oom"
                 => result.status = "OOM_ERROR" /\ result.retry = FALSE
            /\ raised # "oom"
                 => result.status = "ERROR" /\ result.retry = TRUE

\* C7, the case: the generation ran out of memory and handler has returned
C7_Witness ==
    /\ wpc = "returned"
    /\ raised = "oom"
    /\ generation = "failed"
    /\ result.status = "OOM_ERROR"

\* the job input holds neither a prompt nor messages
NeitherGiven(inp) == inp.prompt = <<>> /\ inp.messages = <<>>

\* a value the input holds is outside the bounds lo..hi
Outside(v, lo, hi) == v # <<>> /\ (v[1] < lo \/ v[1] > hi)

\* a value the input holds is below the lower bound
Below(v, lo) == v # <<>> /\ v[1] < lo

\* a generation parameter of the job input is outside its declared bounds
OutOfBounds(inp) ==
    \/ Outside(inp.max_tokens, 1, 2048)
    \/ Outside(inp.temperature, 0, 200)
    \/ Outside(inp.top_p, 0, 100)
    \/ Below(inp.top_k, 0)
    \/ Outside(inp.presence_penalty, -200, 200)
    \/ Outside(inp.frequency_penalty, -200, 200)

\* C8: a job with neither a prompt nor messages, or with a generation
\* parameter outside its declared bounds, gets the result "VALIDATION_FAILED"
\* with retry false, and neither the prompt formatting nor the inference is
\* reached for it.
C8_InvalidInputRejected ==
    (wpc \notin {"idle", "validate"}
       /\ (NeitherGiven(job_input) \/ OutOfBounds(job_input)))
    => /\ result.status = "VALIDATION_FAILED"
       /\ result.retry = FALSE
       /\ path = "validation"
       /\ reached = {}
       /\ generation = "none"
       /\ streamPc = "none"

\* C8, the case: a job asking for more than MAX_TOKENS tokens was rejected
C8_Witness ==
    /\ wpc = "returned"
    /\ job_input.prompt # <<>>
    /\ job_input.max_tokens = <<MAX_TOKENS + 1>>
    /\ result.status = "VALIDATION_FAILED"


---------------------------------------------------------------------------
(* Properties of the history and of the overlap *)

\* C9: no step removes or changes a turn of conversation_history (the history
\* before the step is a prefix of the history after it), and every request
\* sent to the LLM is the system message, then the last 10 turns (all of
\* them when there are fewer) the history held when the request was built,
\* in their order, then the user message.
C9_HistoryAppendOnlyAndWindowed ==
    /\ [][/\ Len(state'.conversation_history) >= Len(state.conversation_history)
          /\ SubSeq(state'.conversation_history, 1,
                    Len(state.conversation_history))
               = state.conversation_history]_vars
    /\ [](\A i \in Ids :
            LET f == tasks[i]
                m == f.messages
                n == Len(m) - 2
                h == state.conversation_history
            IN m # <<>>
               => /\ n >= 0 /\ n <= 10
                  /\ n = IF f.hist_len < 10 THEN f.hist_len ELSE 10
                  /\ f.hist_len <= Len(h)
                  /\ m[1].role = "system"
                  /\ m[Len(m)] = [role |-> "user", content |-> f.user_text]
                  /\ \A k \in 1..n :
                        /\ m[1 + k].role = h[f.hist_len - n + k].role
                        /\ m[1 + k].content = h[f.hist_len - n + k].content)

\* C9, the case: a request was built from a history of more than 10 turns
C9_Witness ==
    \E i \in Ids :
        /\ tasks[i].hist_len > 10
        /\ Len(tasks[i].messages) = 12
        /\ Len(state.conversation_history) > 10

---------------------------------------------------------------------------
(* Properties of the training data generator *)

\* a record is a conversation of three messages with the roles system, user,
\* assistant in that order
IsTriple(example) ==
    /\ example.t = "object"
    /\ HasKey(example, <<"conversations">>)
    /\ Get(example, <<"conversations">>).t = "array"
    /\ Len(Get(example, <<"conversations">>).v) = 3
    /\ Role(example, 1) = <<"system">>
    /\ Role(example, 2) = <<"user">>
    /\ Role(example, 3) = <<"assistant">>

\* the assistant content of a record parses as JSON
AssistantParses(example) == Loads(Content(example, 3)).ok

\* the assistant content of a record parses as JSON containing company_name
AssistantNamesCompany(example) ==
    /\ AssistantParses(example)
    /\ InValue(<<"company_name">>, Loads(Content(example, 3)).val)

\* C11 as stated: every record format_for_training produces is a triple of
\* the roles system, user, assistant whose assistant content parses as JSON
\* containing company_name, and every line written passes validate_data.
C11_RecordsNameACompany ==
    /\ \A i \in 1..Len(all_examples) :
          IsTriple(all_examples[i]) /\ AssistantNamesCompany(all_examples[i])
    /\ output_file # <<>>
         => \A i \in 1..Len(output_file[1]) : ValidLine(output_file[1][i])

\* C11, amended: every record format_for_training produces is a triple of
\* the roles system, user, assistant whose assistant content parses as JSON,
\* to the extraction it was given; every line written by generate_all_data
\* and by the template-only command is such a record whose extraction
\* contains company_name, and validate_data counts every line as valid.
C11_WrittenRecordsNameACompany ==
    /\ \A i \in 1..Len(all_examples) :
          IsTriple(all_examples[i]) /\ AssistantParses(all_examples[i])
    /\ (command = "generate" /\ dpc # "start")
         => \A i \in 1..Len(seeds) :
               LET r == Loads(Content(all_examples[i], 3))
               IN /\ r.val.t = seeds[i].extraction.t
                  /\ r.val = seeds[i].extraction
    /\ output_file # <<>>
         => \A i \in 1..Len(output_file[1]) :
               LET r == Loads(output_file[1][i])
               IN /\ r.ok
                  /\ IsTriple(r.val)
                  /\ AssistantNamesCompany(r.val)
                  /\ ValidLine(output_file[1][i])
    /\ dpc = "validated" => report.valid = report.total

\* C11, the case: a full run formatted a record whose extraction holds no
\* company_name, wrote two lines or more, and validate_data has counted them
C11_Witness ==
    /\ command = "generate"
    /\ dpc = "validated"
    /\ report.total >= 2
    /\ \E i \in 1..Len(all_examples) : ~AssistantNamesCompany(all_examples[i])


---------------------------------------------------------------------------
(* Properties of the factory *)

\* the tier argument of the call names no tier, whatever its case
UnknownTier ==
    factory.tier \notin
      { <<"f","r","e","e">>, <<"s","t","a","r","t","e","r">>, <<"P","R","O">>,
        <<"E","n","t","e","r","p","r","i","s","e">> }

\* the language argument of the call names no language, whatever its case
UnknownLanguage ==
    factory.language \notin { <<"e","n">>, <<"E","S">>, <<"e","s">> }

\* the voice argument of the call is no key of VOICE_PRESETS
UnknownVoice ==
    factory.voice \notin
      {"mexican-woman", "american-man", "spanish-man", "british-woman"}

\* the call raised and no agent exists
FailedWithoutAgent ==
    /\ factory.status = "raised"
    /\ tier = "none"
    /\ language = "none"
    /\ ~connection
    /\ state = VoiceAgentState

\* C12 as stated: TIER_CONFIGS has a record for every tier, and a call of
\* create_voice_agent with an unknown tier, an unknown language or an unknown
\* voice preset fails without constructing an agent.
C12_UnknownKeysFail ==
    /\ DOMAIN TIER_CONFIGS = {"free", "starter", "pro", "enterprise"}
    /\ (factory.status # "none"
          /\ (UnknownTier \/ UnknownLanguage \/ UnknownVoice))
         => FailedWithoutAgent

\* C12, amended: TIER_CONFIGS has a record for every tier, and a call of
\* create_voice_agent with an unknown tier or an unknown language fails
\* without constructing an agent; a call with known tier and language returns
\* an agent of that tier and language, and with an unknown voice preset the
\* agent speaks with the preset "mexican-woman".
C12_UnknownTierOrLanguageFails ==
    /\ DOMAIN TIER_CONFIGS = {"free", "starter", "pro", "enterprise"}
    /\ (factory.status # "none" /\ (UnknownTier \/ UnknownLanguage))
         => FailedWithoutAgent
    /\ (factory.status # "none" /\ ~UnknownTier /\ ~UnknownLanguage)
         => /\ factory.status = "returned"
            /\ tier \in DOMAIN TIER_CONFIGS
            /\ language \in {"en", "es"}
            /\ UnknownVoice
                 => preset = [voice_id |-> "a0e99841", language |-> "es",
                              default_emotion |-> "warm"]
            /\ ~UnknownVoice => preset = VOICE_PRESETS[factory.voice]

\* C12, the case: an agent was returned for a voice that is no preset, and it
\* has started listening
C12_Witness ==
    /\ factory.status = "returned"
    /\ factory.voice = "robot"
    /\ factory.tier = <<"P","R","O">>
    /\ tier = "pro"
    /\ state.is_listening


---------------------------------------------------------------------------
(* Properties of the tier settings *)

\* C13: on every tier, every LLM request uses the llm_model and the
\* llm_max_tokens of the agent's tier, the transcription stream is started
\* with the stt_model and the endpointing_ms of the tier, and every synthesis
\* request uses the tts_model of the tier.
C13_TierSettingsPassThrough ==
    /\ llm_options # NoChatOptions
         => /\ llm_options.model = TIER_CONFIGS[tier].llm_model
            /\ llm_options.max_tokens = TIER_CONFIGS[tier].llm_max_tokens
    /\ \A i \in Ids : tasks[i].messages # <<>> => llm_options # NoChatOptions
    /\ live_options # NoLiveOptions
         => /\ live_options.model = TIER_CONFIGS[tier].stt_model
            /\ live_options.endpointing = TIER_CONFIGS[tier].endpointing_ms
    /\ connection => live_options # NoLiveOptions
    /\ \A i \in Ids : \A k \in DOMAIN tasks[i].spoken :
          tasks[i].spoken[k].model_id = TIER_CONFIGS[tier].tts_model

\* C13, the case: on the FREE tier the stream was started, a completion was
\* requested and a segment is being synthesized
C13_Witness ==
    /\ tier = "free"
    /\ live_options.endpointing = 500
    /\ llm_options.max_tokens = 256
    /\ \E i \in Ids :
          /\ Speaking(tasks[i])
          /\ tasks[i].spoken[Len(tasks[i].spoken)].model_id = "sonic-english"

---------------------------------------------------------------------------
(* Properties of the demo loop *)

\* C14: whenever demo_mode is blocked at its input prompt, every message it
\* handed to _handle_transcript before has had its turn run: no turn is
\* waiting or in progress and is_processing is false.
C14_PromptWaitsForTurn ==
    demo.pc = "input"
       => /\ ~state.is_processing
          /\ \A i \in Ids : tasks[i].pc = "done"

---------------------------------------------------------------------------
(* Properties of the release of the agent *)

\* C15: whenever is_processing is true, a later state has is_processing
\* false and is_listening true, whichever way the turn ends: completed, failed
\* in generation or synthesis, or failed while speaking the error message.
C15_TurnReleasesAgent ==
    state.is_processing ~> (~state.is_processing /\ state.is_listening)

\* a turn that raised while the error message was spoken, and the agent
\* released after it
C15_Witness ==
    /\ ~state.is_processing
    /\ state.is_listening
    /\ \E i \in Ids : tasks[i].outcome = "raised"

---------------------------------------------------------------------------
(* Properties of sentence chunking *)

\* a text without its whitespace
RECURSIVE Squeeze(_)
Squeeze(s) ==
    IF s = <<>> THEN <<>>
    ELSE IF IsSpace(Head(s)) THEN Squeeze(Tail(s))
    ELSE <<Head(s)>> \o Squeeze(Tail(s))

\* the texts of the first k entries of a synthesis log, concatenated
RECURSIVE SpokenText(_, _)
SpokenText(spoken, k) ==
    IF k = 0 THEN <<>> ELSE SpokenText(spoken, k - 1) \o spoken[k].text

\* C16: in a turn that completed without error the segments handed to the
\* synthesis are the stripped texts of consecutive runs of tokens that cover
\* the stream in order, a run left unspoken at the end is blank, so the
\* segments concatenated are the tokens concatenated up to whitespace; and the
\* assistant turn appended to the history is the concatenation of all tokens.
C16_ChunkingLosesNothing ==
    \A i \in Ids :
        LET f == tasks[i]
            h == state.conversation_history
            n == Len(f.spoken)
            all == Concat(f.chunks, 1, Len(f.chunks))
        IN (f.pc = "done" /\ f.outcome = "ok")
           => /\ \A k \in 1..n :
                    /\ PreviousPos(f, k) < f.spoken[k].pos
                    /\ f.spoken[k].text =
                          Strip(Concat(f.chunks, PreviousPos(f, k) + 1,
                                       f.spoken[k].pos))
              /\ Strip(Concat(f.chunks, PreviousPos(f, n + 1) + 1,
                              Len(f.chunks))) = <<>>
              /\ Squeeze(SpokenText(f.spoken, n)) = Squeeze(all)
              /\ f.full_response = all
              /\ h # <<>>
              /\ h[Len(h)] = ConversationTurn("assistant", all)

\* C16, the case: a completed turn whose response was spoken as a sentence
\* and a remainder without punctuation, the blank before the remainder
\* stripped
C16_Witness ==
    \E i \in Ids :
        /\ tasks[i].pc = "done"
        /\ tasks[i].outcome = "ok"
        /\ Len(tasks[i].spoken) = 2
        /\ tasks[i].spoken[2].kind = "rest"
        /\ tasks[i].full_response = <<"a", ".", " ", "b">>
        /\ SpokenText(tasks[i].spoken, 2) = <<"a", ".", "b">>

---------------------------------------------------------------------------
(* Properties of a failed turn *)

\* the turn has failed: it is speaking the error message or has ended after it
Failed(f) ==
    \/ f.pc = "speak_error"
    \/ f.pc = "done" /\ f.outcome \in {"error", "raised"}

\* C17: when the completion stream or a synthesis raises during a turn, the
\* turn asks for one synthesis of the fixed error message in the agent's
\* language and sends no second completion request; from the exception to
\* the end of the turn nothing is appended to the history and turn_count
\* does not change, and the user turn of the failed turn stays the last turn
\* of the history.
C17_FailedTurnOnlySpeaksError ==
    [][\A i \in Ids :
         LET f == tasks[i]
             g == tasks'[i]
         IN /\ (f.pc # "speak_error" /\ g.pc = "speak_error")
                 => /\ Active(f)
                    /\ Len(g.spoken) = Len(f.spoken) + 1
                    /\ g.spoken[Len(g.spoken)].text =
                          IF language = "es"
                          THEN <<"Lo siento, hubo un problema. Por favor intenta de nuevo.">>
                          ELSE <<"Sorry, there was a problem. Please try again.">>
            /\ f.pc = "speak_error"
                 => /\ g.pc \in {"speak_error", "done"}
                    /\ Len(g.spoken) = Len(f.spoken)
                    /\ g.pc = "done" => g.outcome \in {"error", "raised"}
            /\ (Failed(f) \/ Failed(g)) /\ g # Released
                 => /\ g.messages = f.messages
                    /\ g.pos = f.pos
                    /\ state'.conversation_history = state.conversation_history
                    /\ state'.turn_count = state.turn_count
                    /\ state'.conversation_history # <<>>
                    /\ state'.conversation_history[Len(state'.conversation_history)]
                          = ConversationTurn("user", f.user_text)]_vars

\* C17, the case: on a Spanish agent a synthesis raised after the first
\* sentence, the error message has been spoken and the turn has ended, the
\* history holding the user turn alone
C17_Witness ==
    /\ language = "es"
    /\ state.turn_count = 0
    /\ Len(state.conversation_history) = 1
    /\ \E i \in Ids :
          /\ tasks[i].pc = "done"
          /\ tasks[i].outcome = "error"
          /\ tasks[i].pos < Len(tasks[i].chunks)
          /\ Len(tasks[i].spoken) = 2
          /\ tasks[i].spoken[2].kind = "error"

---------------------------------------------------------------------------
(* Properties of the completion request *)

\* the places of a sequence of turns or messages that hold the user text
UserPlaces(turns, text) ==
    {k \in DOMAIN turns : turns[k].role = "user" /\ turns[k].content = text}

\* C18: the messages of the completion request of a turn hold the user
\* message of the turn exactly once, as the last message (stated for a turn
\* whose text no earlier turn of the conversation has).
C18_UserMessageOnce ==
    \A i \in Ids :
        LET f == tasks[i]
            h == SubSeq(state.conversation_history, 1, f.hist_len)
        IN (f.messages # <<>> /\ Cardinality(UserPlaces(h, f.user_text)) = 1)
           => /\ UserPlaces(f.messages, f.user_text) = {Len(f.messages)}
              /\ f.messages[Len(f.messages)].role = "user"

---------------------------------------------------------------------------
(* Properties of start() and stop() *)

\* stop() has completed after a start() and start() has not been called
\* since: the agent was started once (it holds the options of a stream), no
\* start() or stop() is in progress, and the connection stop_stream dropped
\* has not been replaced
Stopped ==
    /\ live_options # NoLiveOptions
    /\ ~connection
    /\ startPc = "idle"
    /\ stopPc = "idle"

\* C19: once stop() has completed and is_listening is false, no step sets
\* is_listening while the agent stays stopped, whatever a turn still in
\* flight does: is_listening stays false until start() is called again.
C19_StoppedAgentDoesNotListen ==
    [][(Stopped /\ ~state.is_listening /\ Stopped')
          => ~state'.is_listening]_vars

---------------------------------------------------------------------------
(* Properties of the audio input *)

\* C20: send_audio hands its chunk to the transcription connection exactly
\* when is_listening is true, is_speaking is false and the agent holds a
\* connection; it changes neither the agent state, nor the connection, nor
\* any turn.
C20_AudioForwardedIffListening ==
    [][send_audio
         => /\ audio_forwarded' =
                  (state.is_listening /\ ~state.is_speaking /\ connection)
            /\ state' = state
            /\ connection' = connection
            /\ tasks' = tasks]_vars

\* C20, the case: after a completed turn the agent listens again and a chunk
\* has been forwarded
C20_Witness ==
    /\ audio_forwarded
    /\ connection
    /\ state.is_listening
    /\ ~state.is_speaking
    /\ state.turn_count = 1

---------------------------------------------------------------------------
(* Properties of the transcripts *)

\* the text has a character that is not whitespace
HasText(text) == \E k \in 1..Len(text) : ~IsSpace(text[k])

\* C21: a transcript handed to the agent sets current_transcript, reaches the
\* on_transcript callback when one is registered, and changes neither
\* conversation_history nor turn_count; it creates a _process_turn for its
\* text exactly when it is final and has a character that is not
\* whitespace; and nothing else creates a _process_turn.
C21_OnlyFinalTextStartsATurn ==
    [][/\ \A text \in Transcripts, is_final \in Finals :
            handle_transcript(text, is_final)
               => /\ state'.current_transcript = text
                  /\ on_transcript_cb
                       => transcript_seen' = <<[text |-> text,
                                                is_final |-> is_final]>>
                  /\ state'.conversation_history = state.conversation_history
                  /\ state'.turn_count = state.turn_count
                  /\ state'.is_processing = state.is_processing
                  /\ (is_final /\ HasText(text))
                       => /\ Len(tasks') = Len(tasks) + 1
                          /\ tasks'[Len(tasks')].pc = "created"
                          /\ tasks'[Len(tasks')].user_text = text
                  /\ ~(is_final /\ HasText(text)) => tasks' = tasks
       /\ Len(tasks') # Len(tasks)
            => /\ Len(tasks') = Len(tasks) + 1
               /\ HasText(tasks'[Len(tasks')].user_text)
               /\ state'.current_transcript = tasks'[Len(tasks')].user_text
               /\ on_transcript_cb => transcript_seen'[1].is_final]_vars

\* C21, the case: with a turn of an earlier transcript completed, a blank
\* final transcript has reached the callback and has started nothing
C21_Witness ==
    /\ on_transcript_cb
    /\ transcript_seen = <<[text |-> <<" ">>, is_final |-> TRUE]>>
    /\ state.current_transcript = <<" ">>
    /\ state.turn_count = 1
    /\ Len(tasks) = 1

---------------------------------------------------------------------------
(* Properties of the history *)

\* the places of the assistant turns in a history
AssistantPlaces(history) ==
    {k \in DOMAIN history : history[k].role = "assistant"}

\* C22: in every state turn_count is the number of assistant turns in
\* conversation_history, and every assistant turn comes right after a user
\* turn.
C22_TurnCountCountsAssistantTurns ==
    LET h == state.conversation_history
    IN /\ state.turn_count = Cardinality(AssistantPlaces(h))
       /\ \A k \in AssistantPlaces(h) : k > 1 /\ h[k - 1].role = "user"
       /\ \A k \in DOMAIN h : h[k].role \in {"user", "assistant"}

\* C22, the case: two turns have completed and a turn between or before them
\* has failed, leaving a user turn without an answer
C22_Witness ==
    LET h == state.conversation_history
    IN /\ state.turn_count = 2
       /\ Len(h) >= 5
       /\ \E k \in 1..(Len(h) - 1) :
             h[k].role = "user" /\ h[k + 1].role = "user"
       /\ h[Len(h)].role = "assistant"

===========================================================================
